---- MODULE Spec2Model ----
(***************************************************************************)
(* Shot-tensor construction of the basketball shot pattern explorer.      *)
(*                                                                         *)
(* Units.  Court coordinates are held in half units (LOC_X = -250 is the  *)
(* integer -500) so that the grid edge -47.5 is an integer; the           *)
(* efg_weight channel is held in tenths (1.5 is 15, 1.0 is 10).           *)
(* Counts are small integers, which float32 represents exactly.           *)
(* np.linspace edges are compared exactly: edges[i] = lo + i*(hi-lo)/n,   *)
(* and edges[i] <= v is evaluated as i*(hi-lo) <= n*(v-lo).               *)
(***************************************************************************)
EXTENDS Integers, Sequences, FiniteSets, TLC

VARIABLES
    b_kind,     \* which builder runs: "nba", "bleague" or "team"
    b_df,       \* the event table(s) handed to the builder
    b_pc,       \* "loop" | "done" | "error" (IndexError raised by the builder)
    g_idx,      \* index of the game of the outer loop
    r_idx,      \* number of rows of that game already visited
    data_4d,    \* the accumulator (games, time, y, x, 4 channels)
    cur,        \* the row visited last with its time_bin, y_bin, x_bin
    b_out,      \* what the builder returned: tensor, meta, season_labels
    source,     \* the rows the Event Source holds (NBA archive, season sheets)
    app_state,  \* the global dict of the API layer, a function on its keys
    response,   \* the answer to the last request
    f_args,     \* the arguments of one call of an analysis function
    f_ret       \* what that call computed and returned

bvars == <<b_kind, b_df, b_pc, g_idx, r_idx, data_4d, cur, b_out>>

svars == <<source, app_state, response>>

fvars == <<f_args, f_ret>>

vars == <<b_kind, b_df, b_pc, g_idx, r_idx, data_4d, cur, b_out,
          source, app_state, response, f_args, f_ret>>

-----------------------------------------------------------------------------
(* Bounds of the model *)

MaxEvents == 2

grid_x_bins == 2

grid_y_bins == 2

MaxRows == 2

(* Program constants *)

NBA_PERIOD_SECONDS == 720

PERIOD_SECONDS == 600

TIME_BIN_SECONDS_NBA == 720

TIME_BIN_SECONDS_BLEAGUE == 600

LARGE_OFFSET == 1000000

NoRow == [outcome |-> "none"]

NoOut == [status |-> "none"]

NoResponse == [endpoint |-> "none"]

NoCall == [fn |-> "none"]

\* app_state = {}
EmptyDict == [k \in {} |-> 0]

-----------------------------------------------------------------------------
(* Grid and time configuration *)

\* x_edges = np.linspace(-250, 250, grid_x_bins + 1), in half units
XEdgeLo == 2 * (-250)

XEdgeHi == 2 * 250

\* y_edges = np.linspace(-47.5, 422.5, grid_y_bins + 1), in half units
YEdgeLo == (2 * (-475)) \div 10

YEdgeHi == (2 * 4225) \div 10

\* edges[i] <= v for edges = np.linspace(lo, hi, n + 1)
EdgeLeq(lo, hi, n, i, v) == i * (hi - lo) <= n * (v - lo)

DigitizeRight(lo, hi, n, v) ==
    Cardinality({i \in 0..n : i * (hi - lo) < n * (v - lo)})

\* np.digitize(v, edges): the number of edges that are <= v
Digitize(lo, hi, n, v) ==
    Cardinality({i \in 0..n : EdgeLeq(lo, hi, n, i, v)})

CeilDiv(a, b) == (a + b - 1) \div b

time_bin_seconds(kind) ==
    IF kind = "nba" THEN TIME_BIN_SECONDS_NBA ELSE TIME_BIN_SECONDS_BLEAGUE

total_duration(kind) ==
    IF kind = "nba" THEN 4 * 12 * 60 ELSE 4 * PERIOD_SECONDS

num_time_bins(kind) == CeilDiv(total_duration(kind), time_bin_seconds(kind))

-----------------------------------------------------------------------------
(* Events *)

RemainingSec(ev) == ev.MINUTES_REMAINING * 60 + ev.SECONDS_REMAINING

ElapsedOffByOne(kind, ev) ==
    IF kind = "nba"
    THEN ev.PERIOD * NBA_PERIOD_SECONDS + (NBA_PERIOD_SECONDS - RemainingSec(ev))
    ELSE ev.PERIOD * PERIOD_SECONDS + (PERIOD_SECONDS - RemainingSec(ev))

ELAPSED_SEC(kind, ev) ==
    IF kind = "nba"
    THEN (ev.PERIOD - 1) * NBA_PERIOD_SECONDS
         + (NBA_PERIOD_SECONDS - RemainingSec(ev))
    ELSE (ev.PERIOD - 1) * PERIOD_SECONDS
         + (PERIOD_SECONDS - RemainingSec(ev))

time_bin(kind, ev) == ELAPSED_SEC(kind, ev) \div time_bin_seconds(kind)

x_bin(ev) == Digitize(XEdgeLo, XEdgeHi, grid_x_bins, ev.LOC_X) - 1

y_bin(ev) == Digitize(YEdgeLo, YEdgeHi, grid_y_bins, ev.LOC_Y) - 1

InGrid(ev) ==
    /\ x_bin(ev) >= 0 /\ x_bin(ev) < grid_x_bins
    /\ y_bin(ev) >= 0 /\ y_bin(ev) < grid_y_bins

-----------------------------------------------------------------------------
(* Inputs of the builder: shot events as rows of the event table *)

Shot(gid, season, tc, loc, sh) ==
    [GAME_ID |-> gid, SEASON_LABEL |-> season, PLAYER_ID |-> 203999,
     PERIOD |-> tc[1], MINUTES_REMAINING |-> tc[2], SECONDS_REMAINING |-> tc[3],
     LOC_X |-> loc[1], LOC_Y |-> loc[2],
     SHOT_MADE_FLAG |-> sh[1], IS_3PT |-> sh[2]]

\* (period, minutes, seconds): third period 5:00 left
BaseTime == <<3, 5, 0>>

\* second period 11:40 left; the final buzzer; more time left than a period
\* lasts (elapsed < 0); a corrupt clock far beyond the game length
OtherTimes == {<<2, 11, 40>>, <<4, 0, 0>>, <<1, 12, 10>>, <<1, 61, 40>>}

\* on the first edge of x and of y
BaseLoc == <<XEdgeLo, YEdgeLo>>

\* on the last x edge, below the first x edge, on the last y edge, below the
\* first y edge
OffGridLocs == {<<XEdgeHi, YEdgeLo>>, <<XEdgeLo - 2, YEdgeLo>>,
                <<0, YEdgeHi>>, <<0, YEdgeLo - 1>>}

\* (SHOT_MADE_FLAG, three-pointer): missed two, made two, made three
Miss2 == <<0, FALSE>>

Make2 == <<1, FALSE>>

Make3 == <<1, TRUE>>

Miss3 == <<0, TRUE>>

ShotKinds(gid, season) ==
    {Shot(gid, season, BaseTime, BaseLoc, sh) : sh \in {Miss2, Make2, Make3}}
    \cup {Shot(gid, season, BaseTime, <<0, YEdgeLo>>, Make3),
          Shot(gid, season, BaseTime, <<XEdgeLo, 375>>, Make2)}
    \cup {Shot(gid, season, BaseTime, loc, Make3) : loc \in OffGridLocs}
    \cup {Shot(gid, season, tc, BaseLoc, Make3) : tc \in OtherTimes}
    \cup {Shot(gid, season, <<1, 61, 40>>, <<XEdgeHi, YEdgeLo>>, Miss3)}

GameIds == {1, LARGE_OFFSET + 1}

\* (season, game id) pairs of the two season sheets
SeasonGames == {<<0, 1>>, <<0, LARGE_OFFSET + 1>>, <<1, 1>>}

BuildEvents(kind) ==
    IF kind = "team"
    THEN UNION {ShotKinds(sg[2], sg[1]) : sg \in SeasonGames}
    ELSE UNION {ShotKinds(gid, 0) : gid \in GameIds}

Tables(E) == UNION {[1..n -> E] : n \in 0..MaxEvents}

-----------------------------------------------------------------------------
(* The tensor builders *)

RECURSIVE SortAsc(_)
\* sorted(S) for a set of integers
SortAsc(S) ==
    IF S = {} THEN <<>>
    ELSE LET m == CHOOSE x \in S : \A y \in S : x <= y
         IN  <<m>> \o SortAsc(S \ {m})

\* df = df[df["PERIOD"] <= 4] of the NBA builder; the other builders take df as is
Frame(kind, df) ==
    IF kind = "nba" THEN SelectSeq(df, LAMBDA e : e.PERIOD <= 4) ELSE df

SeasonDf(df, season) == SelectSeq(df, LAMBDA e : e.SEASON_LABEL = season)

UnsortedIds(df) ==
    LET ids == {df[i].GAME_ID : i \in DOMAIN df}
        f == CHOOSE g \in [1..Cardinality(ids) -> ids] :
                 /\ \A i, j \in DOMAIN g : i /= j => g[i] /= g[j]
                 /\ \A i, j \in DOMAIN g : i < j => g[i] >= g[j]
    IN  f

\* sorted(df["GAME_ID"].unique())
game_ids(df) == SortAsc({df[i].GAME_ID : i \in DOMAIN df})

Tag(season, ids) == [i \in DOMAIN ids |-> <<season, ids[i]>>]

\* the rows of the tensor as (season, game id); one season for a player tensor
all_game_ids(kind, df) ==
    IF kind = "team"
    THEN Tag(0, game_ids(SeasonDf(df, 0))) \o Tag(1, game_ids(SeasonDf(df, 1)))
    ELSE Tag(0, game_ids(Frame(kind, df)))

season_labels(kind, df) ==
    LET ids == all_game_ids(kind, df) IN [i \in DOMAIN ids |-> ids[i][1]]

\* game_df = df[df["GAME_ID"] == gid] (of the row's season in team mode)
game_df(kind, df, key) ==
    IF kind = "team"
    THEN SelectSeq(SeasonDf(df, key[1]), LAMBDA e : e.GAME_ID = key[2])
    ELSE SelectSeq(Frame(kind, df), LAMBDA e : e.GAME_ID = key[2])

\* np.zeros((len(game_ids), num_time_bins, grid_y_bins, grid_x_bins, 4))
Zeros(kind, n) ==
    [g \in 0..(n - 1) |-> [t \in 0..(num_time_bins(kind) - 1) |->
        [y \in 0..(grid_y_bins - 1) |-> [x \in 0..(grid_x_bins - 1) |->
            [c \in 0..3 |-> 0]]]]]

\* numpy's a[t]: a negative index counts from the end, anything outside
\* -n..n-1 raises IndexError
IndexOk(t, n) == t >= -n /\ t < n

PyIndex(t, n) == IF t < 0 THEN t + n ELSE t

OutcomeOffByOne(kind, ev) ==
    IF ~InGrid(ev) THEN "offgrid"
    ELSE IF time_bin(kind, ev) > num_time_bins(kind) THEN "overflow"
    ELSE IF ~IndexOk(time_bin(kind, ev), num_time_bins(kind)) THEN "indexerror"
    ELSE "counted"

\* what the loop does with one row of game_df
Outcome(kind, ev) ==
    IF ~InGrid(ev) THEN "offgrid"
    ELSE IF time_bin(kind, ev) >= num_time_bins(kind) THEN "overflow"
    ELSE IF ~IndexOk(time_bin(kind, ev), num_time_bins(kind)) THEN "indexerror"
    ELSE "counted"

AddShotAlways(ch, ev) ==
    [ch EXCEPT ![0] = @ + 1, ![1] = @ + 1,
               ![2] = @ + (IF ev.IS_3PT THEN 3 ELSE 2),
               ![3] = @ + (IF ev.IS_3PT THEN 15 ELSE 10)]

\* the += lines of the loop body on the four channels of one position
AddShot(ch, ev) ==
    IF ev.SHOT_MADE_FLAG = 1
    THEN [ch EXCEPT ![0] = @ + 1, ![1] = @ + 1,
                    ![2] = @ + (IF ev.IS_3PT THEN 3 ELSE 2),
                    ![3] = @ + (IF ev.IS_3PT THEN 15 ELSE 10)]
    ELSE [ch EXCEPT ![0] = @ + 1]

Accumulate(kind, data, g, ev) ==
    [data EXCEPT ![g][PyIndex(time_bin(kind, ev), num_time_bins(kind))]
                     [y_bin(ev)][x_bin(ev)] = AddShot(@, ev)]

n_channels(kind) == IF kind = "nba" THEN 5 ELSE 6

MissesAsMakes(ch) == ch[1]

\* data_6ch[..., 4] = data_4d[..., 0] - data_4d[..., 1]
Misses(ch) == ch[0] - ch[1]

\* data_6ch[..., 5] = data_4d[..., 0]
Frequency(ch) == ch[0]

data_6ch(kind, ch) ==
    [c \in 0..(n_channels(kind) - 1) |->
        IF c <= 3 THEN ch[c] ELSE IF c = 4 THEN Misses(ch) ELSE Frequency(ch)]

\* data_6ch.reshape(games, time, grid_y_bins * grid_x_bins, channels): row-major,
\* so cell = y * grid_x_bins + x
Reshape(kind, data) ==
    [g \in DOMAIN data |-> [t \in DOMAIN data[g] |->
        [cell \in 0..(grid_y_bins * grid_x_bins - 1) |->
            data_6ch(kind, data[g][t][cell \div grid_x_bins][cell % grid_x_bins])]]]

\* combined_game_ids = [season * 1000000 + gid ...] for the team tensor
combined_game_id(key) == key[1] * LARGE_OFFSET + key[2]

meta_game_ids(kind, df) ==
    LET ids == all_game_ids(kind, df)
    IN  [i \in DOMAIN ids |->
            IF kind = "team" THEN combined_game_id(ids[i]) ELSE ids[i][2]]

-----------------------------------------------------------------------------
(* One builder call, row by row *)

InitBuild ==
    /\ b_kind \in {"nba", "bleague", "team"}
    /\ b_df \in Tables(BuildEvents(b_kind))
    /\ b_pc = "loop"
    /\ g_idx = 0
    /\ r_idx = 0
    /\ data_4d = Zeros(b_kind, Len(all_game_ids(b_kind, b_df)))
    /\ cur = NoRow
    /\ b_out = NoOut
    /\ source = <<>>
    /\ app_state = EmptyDict
    /\ response = NoResponse
    /\ f_args = NoCall
    /\ f_ret = NoCall

\* one iteration over the rows of game_df: filter, continue, or accumulate
ProcessRow ==
    /\ b_pc = "loop"
    /\ g_idx < Len(all_game_ids(b_kind, b_df))
    /\ LET rows == game_df(b_kind, b_df, all_game_ids(b_kind, b_df)[g_idx + 1])
           ev == rows[r_idx + 1]
           what == Outcome(b_kind, ev)
       IN  /\ cur' = [outcome |-> what, ev |-> ev, g |-> g_idx,
                      t |-> time_bin(b_kind, ev), y |-> y_bin(ev), x |-> x_bin(ev)]
           /\ data_4d' = IF what = "counted"
                         THEN Accumulate(b_kind, data_4d, g_idx, ev)
                         ELSE data_4d
           /\ IF what = "indexerror"
              THEN /\ b_pc' = "error"
                   /\ b_out' = [status |-> "IndexError"]
                   /\ UNCHANGED <<g_idx, r_idx>>
              ELSE /\ UNCHANGED <<b_pc, b_out>>
                   /\ IF r_idx + 1 < Len(rows)
                      THEN r_idx' = r_idx + 1 /\ g_idx' = g_idx
                      ELSE r_idx' = 0 /\ g_idx' = g_idx + 1
    /\ UNCHANGED <<b_kind, b_df>>
    /\ UNCHANGED svars
    /\ UNCHANGED fvars

\* after the loops: misses, frequency, reshape, meta
Finish ==
    /\ b_pc = "loop"
    /\ g_idx = Len(all_game_ids(b_kind, b_df))
    /\ b_pc' = "done"
    /\ b_out' = [status |-> "ok",
                 tensor |-> Reshape(b_kind, data_4d),
                 game_ids |-> meta_game_ids(b_kind, b_df),
                 season_labels |-> season_labels(b_kind, b_df)]
    /\ UNCHANGED <<b_kind, b_df, g_idx, r_idx, data_4d, cur>>
    /\ UNCHANGED svars
    /\ UNCHANGED fvars

NextBuild == ProcessRow \/ Finish

SpecBuild == InitBuild /\ [][NextBuild]_vars

-----------------------------------------------------------------------------
(* The builders as functions of the whole event table *)

RECURSIVE AccumulateRows(_, _, _, _)
\* the inner loop over the rows of one game_df, rows that are filtered out or
\* skipped by continue leave the accumulator as it is
AccumulateRows(kind, data, g, rows) ==
    IF rows = <<>> THEN data
    ELSE AccumulateRows(
             kind,
             IF Outcome(kind, Head(rows)) = "counted"
             THEN Accumulate(kind, data, g, Head(rows)) ELSE data,
             g, Tail(rows))

RECURSIVE AccumulateGames(_, _, _, _)
\* the outer loop over enumerate(game_ids), from row g on
AccumulateGames(kind, df, data, g) ==
    IF g >= Len(all_game_ids(kind, df)) THEN data
    ELSE AccumulateGames(
             kind, df,
             AccumulateRows(kind, data, g,
                            game_df(kind, df, all_game_ids(kind, df)[g + 1])),
             g + 1)

RaisesIndexError(kind, df) ==
    \E i \in DOMAIN Frame(kind, df) : Outcome(kind, Frame(kind, df)[i]) = "indexerror"

\* make_game_time_space_tensor_both ("nba"), make_bleague_tensor ("bleague"),
\* make_bleague_team_tensor ("team")
MakeTensor(kind, df) ==
    IF RaisesIndexError(kind, df)
    THEN [status |-> "IndexError"]
    ELSE [status |-> "ok",
          tensor |-> Reshape(kind, AccumulateGames(
                        kind, df, Zeros(kind, Len(all_game_ids(kind, df))), 0)),
          game_ids |-> meta_game_ids(kind, df),
          season_labels |-> season_labels(kind, df)]

\* the row-by-row run returns what the builder returns as a function
StepsAgreeWithFunction ==
    b_pc \in {"done", "error"} => b_out = MakeTensor(b_kind, b_df)

-----------------------------------------------------------------------------
(* Vocabulary of the claims about one builder call *)

RECURSIVE Sum(_, _)
Sum(f, S) ==
    IF S = {} THEN 0
    ELSE LET x == CHOOSE y \in S : TRUE IN f[x] + Sum(f, S \ {x})

Built == b_pc = "done"

Rows == DOMAIN b_out.tensor

TimeBins == 0..(num_time_bins(b_kind) - 1)

Cells == 0..(grid_y_bins * grid_x_bins - 1)

\* the events of tensor row g, in table order
EventsOfRow(g) == game_df(b_kind, b_df, all_game_ids(b_kind, b_df)[g + 1])

\* sum of one channel of row g over all time bins and cells
ChannelTotal(g, c) ==
    Sum([p \in TimeBins \X Cells |-> b_out.tensor[g][p[1]][p[2]][c]],
        TimeBins \X Cells)

\* sum of the attempts of row g at one cell over all time bins
CellAttempts(g, cell) ==
    Sum([t \in TimeBins |-> b_out.tensor[g][t][cell][0]], TimeBins)

PeriodLength == IF b_kind = "nba" THEN 720 ELSE 600

\* elapsed seconds as the design states them
ElapsedOf(ev) ==
    (ev.PERIOD - 1) * PeriodLength
    + (PeriodLength - (ev.MINUTES_REMAINING * 60 + ev.SECONDS_REMAINING))

\* floor(elapsed / time_bin_seconds) = k
FloorIs(ev, k) ==
    /\ k * time_bin_seconds(b_kind) <= ElapsedOf(ev)
    /\ ElapsedOf(ev) < (k + 1) * time_bin_seconds(b_kind)

\* edges[i] <= v < edges[i+1]
InBin(lo, hi, n, i, v) ==
    /\ i * (hi - lo) <= n * (v - lo)
    /\ n * (v - lo) < (i + 1) * (hi - lo)

OnGridX(ev) == \E i \in 0..(grid_x_bins - 1) :
                   InBin(XEdgeLo, XEdgeHi, grid_x_bins, i, ev.LOC_X)

OnGridY(ev) == \E i \in 0..(grid_y_bins - 1) :
                   InBin(YEdgeLo, YEdgeHi, grid_y_bins, i, ev.LOC_Y)

OnGrid(ev) == OnGridX(ev) /\ OnGridY(ev)

\* the cell y_bin * n_x_bins + x_bin of an event on the grid
CellOf(ev) ==
    LET i == CHOOSE k \in 0..(grid_x_bins - 1) :
                 InBin(XEdgeLo, XEdgeHi, grid_x_bins, k, ev.LOC_X)
        j == CHOOSE k \in 0..(grid_y_bins - 1) :
                 InBin(YEdgeLo, YEdgeHi, grid_y_bins, k, ev.LOC_Y)
    IN  j * grid_x_bins + i

\* time bin at or beyond the configured number of time bins
Overflows(ev) ==
    ElapsedOf(ev) >= num_time_bins(b_kind) * time_bin_seconds(b_kind)

\* time bin inside 0..num_time_bins-1
TimeBinInside(ev) ==
    \E k \in TimeBins : FloorIs(ev, k)

Dropped(ev) == ~OnGrid(ev) \/ Overflows(ev)

Retained(ev) == OnGrid(ev) /\ TimeBinInside(ev)

Count(rows, P(_)) == Cardinality({k \in DOMAIN rows : P(rows[k])})

-----------------------------------------------------------------------------
(* Claims about the tensor builders, checked under SpecBuild *)

\* C1: in every tensor a builder returns, at every (game, time bin, cell), the
\* misses channel (4) is the attempts channel (0) minus the makes channel (1).
C1_MissesAreAttemptsMinusMakes ==
    Built =>
        \A g \in Rows : \A t \in TimeBins : \A cell \in Cells :
            b_out.tensor[g][t][cell][4]
                = b_out.tensor[g][t][cell][0] - b_out.tensor[g][t][cell][1]

\* a returned tensor with a position that holds two attempts, one of them made
C1_Witness ==
    /\ Built
    /\ \E g \in Rows : \E t \in TimeBins : \E cell \in Cells :
           /\ b_out.tensor[g][t][cell][0] = 2
           /\ b_out.tensor[g][t][cell][1] = 1
           /\ b_out.tensor[g][t][cell][4] = 1

\* C2 (as claimed): for every game row, the attempts summed over all time bins
\* and cells equal the number of that game's events that are on the grid and
\* have a time bin inside 0..num_time_bins-1, and are never larger.
C2_AttemptsTotalIsRetainedCount ==
    Built =>
        \A g \in Rows : ChannelTotal(g, 0) = Count(EventsOfRow(g), Retained)

\* C3: the x and y bin of every visited row is the bin i with
\* edges[i] <= v < edges[i+1] (none when the coordinate is off the grid), and in
\* the returned tensor the attempts of a game at a cell, over all time bins, are
\* the counted events of the game whose cell is y_bin * n_x_bins + x_bin.
C3_LowerInclusiveBinsAndCell ==
    /\ cur /= NoRow =>
           /\ \A i \in 0..(grid_x_bins - 1) :
                  (cur.x = i) <=> InBin(XEdgeLo, XEdgeHi, grid_x_bins, i, cur.ev.LOC_X)
           /\ \A i \in 0..(grid_y_bins - 1) :
                  (cur.y = i) <=> InBin(YEdgeLo, YEdgeHi, grid_y_bins, i, cur.ev.LOC_Y)
    /\ Built =>
           \A g \in Rows : \A cell \in Cells :
               CellAttempts(g, cell)
                   = Count(EventsOfRow(g),
                           LAMBDA e : ~Dropped(e) /\ CellOf(e) = cell)

\* an event whose x lies exactly on the inner edge 0 was counted in x bin 1,
\* cell 1 of the returned tensor
C3_Witness ==
    /\ Built
    /\ grid_x_bins = 2
    /\ cur /= NoRow
    /\ cur.outcome = "counted"
    /\ cur.ev.LOC_X = 0
    /\ cur.x = 1 /\ cur.y = 0
    /\ CellAttempts(cur.g, 1) = 1

\* C4: visiting an event that is off the grid (below the first edge or at or
\* above the last one) or whose time bin is at or beyond num_time_bins changes no
\* entry of the accumulator and raises nothing, the loop goes on, and in the
\* returned tensor every other event of the game is counted once.
C4_DroppedEventsChangeNothing ==
    /\ [][(ProcessRow /\ Dropped(cur'.ev)) =>
              (data_4d' = data_4d /\ b_pc' = "loop" /\ b_out' = b_out)]_vars
    /\ [](Built =>
              \A g \in Rows :
                  ChannelTotal(g, 0)
                      = Count(EventsOfRow(g), LAMBDA e : ~Dropped(e)))

\* a returned tensor of a game with two events: one counted, and one that is off
\* the grid or at the final buzzer (time bin = num_time_bins) and was visited last
C4_Witness ==
    /\ Built
    /\ cur /= NoRow
    /\ cur.outcome \in {"offgrid", "overflow"}
    /\ Len(EventsOfRow(cur.g)) = 2
    /\ Count(EventsOfRow(cur.g), Dropped) = 1
    /\ ChannelTotal(cur.g, 0) = 1

\* C5: the time bin of every visited row is floor(elapsed / time_bin_seconds)
\* with elapsed = (period-1)*period_length + (period_length - remaining); period
\* 2 with 700 s remaining in the NBA builder is elapsed 740 and time bin 1.
C5_ElapsedAndTimeBin ==
    cur /= NoRow =>
        /\ FloorIs(cur.ev, cur.t)
        /\ (b_kind = "nba" /\ cur.ev.PERIOD = 2
              /\ cur.ev.MINUTES_REMAINING * 60 + cur.ev.SECONDS_REMAINING = 700)
           => (ELAPSED_SEC(b_kind, cur.ev) = 740 /\ cur.t = 1)

\* the NBA builder has visited a period 2 event with 11:40 remaining
C5_Witness ==
    /\ cur /= NoRow
    /\ b_kind = "nba"
    /\ cur.ev.PERIOD = 2
    /\ cur.ev.MINUTES_REMAINING = 11 /\ cur.ev.SECONDS_REMAINING = 40
    /\ cur.t = 1
    /\ cur.outcome = "counted"

\* what one retained event adds to channel c (efg_weight in tenths)
ShotDelta(ev, c) ==
    IF c = 0 THEN 1
    ELSE IF ev.SHOT_MADE_FLAG /= 1 THEN 0
    ELSE IF c = 1 THEN 1
    ELSE IF c = 2 THEN (IF ev.IS_3PT THEN 3 ELSE 2)
    ELSE (IF ev.IS_3PT THEN 15 ELSE 10)

\* C6: visiting a retained event adds 1 to attempts at its (game, time bin, y,
\* x); when the shot was made it adds 1 to makes, 3 or 2 to points and 1.5 or 1.0
\* to efg_weight there; a miss changes attempts only; no other position changes.
C6_OneEventAccumulates ==
    [][(ProcessRow /\ Retained(cur'.ev)) =>
          \A g \in DOMAIN data_4d : \A t \in TimeBins :
          \A y \in 0..(grid_y_bins - 1) : \A x \in 0..(grid_x_bins - 1) :
          \A c \in 0..3 :
              data_4d'[g][t][y][x][c]
                  = data_4d[g][t][y][x][c]
                    + (IF <<g, t, y, x>> = <<cur'.g, cur'.t, cur'.y, cur'.x>>
                       THEN ShotDelta(cur'.ev, c) ELSE 0)]_vars

\* a made three-pointer was just added to a position that held one miss
C6_Witness ==
    /\ cur /= NoRow
    /\ cur.outcome = "counted"
    /\ cur.t >= 0
    /\ cur.ev.SHOT_MADE_FLAG = 1 /\ cur.ev.IS_3PT
    /\ data_4d[cur.g][cur.t][cur.y][cur.x] = [c \in 0..3 |-> IF c = 0 THEN 2
                                                ELSE IF c = 1 THEN 1
                                                ELSE IF c = 2 THEN 3 ELSE 15]

\* C7 (as claimed): every tensor a builder returns has the six channels 0..5 at
\* every position, and the frequency channel (5) equals the attempts channel (0).
C7_SixChannelsFrequencyIsAttempts ==
    Built =>
        \A g \in Rows : \A t \in TimeBins : \A cell \in Cells :
            /\ DOMAIN b_out.tensor[g][t][cell] = 0..5
            /\ b_out.tensor[g][t][cell][5] = b_out.tensor[g][t][cell][0]

C10_CombinedKeysUniqueAndDecodable ==
    (Built /\ b_kind = "team") =>
        LET ids == all_game_ids(b_kind, b_df) IN
        /\ \A i \in DOMAIN ids :
               /\ b_out.game_ids[i] = ids[i][1] * 1000000 + ids[i][2]
               /\ b_out.season_labels[i] = ids[i][1]
               /\ b_out.game_ids[i] \div 1000000 = ids[i][1]
               /\ b_out.game_ids[i] % 1000000 = ids[i][2]
        /\ \A i, j \in DOMAIN ids : i /= j => b_out.game_ids[i] /= b_out.game_ids[j]

-----------------------------------------------------------------------------
(* The API layer: the Event Source and the initialize request *)

PlayerIds == {203999, 203507}

\* the rows of the Event Source: a counted shot and a shot on the last x edge
\* (off the grid)
SourceKinds(gid, season, pid) ==
    {[Shot(gid, season, BaseTime, BaseLoc, Make3) EXCEPT !.PLAYER_ID = pid],
     [Shot(gid, season, BaseTime, <<XEdgeHi, YEdgeLo>>, Miss2) EXCEPT !.PLAYER_ID = pid]}

SourceEvents ==
    UNION {SourceKinds(sg[2], sg[1], pid) : sg \in SeasonGames, pid \in PlayerIds}

\* the rows of the file follow each other by season sheet and by game
SheetOrder(e) == e.SEASON_LABEL * 2 * LARGE_OFFSET + e.GAME_ID

Sources ==
    {t \in UNION {[1..n -> SourceEvents] : n \in 0..MaxRows} :
        \A i, j \in DOMAIN t : i < j => SheetOrder(t[i]) <= SheetOrder(t[j])}

\* the lists of distinct players a request can name
PlayerLists ==
    {l \in UNION {[1..n -> PlayerIds] : n \in 0..Cardinality(PlayerIds)} :
        \A i, j \in DOMAIN l : i /= j => l[i] /= l[j]}

Requests ==
    [league : {"nba", "bleague"},
     analysis_mode : {"player", "team_season"},
     player_ids : PlayerLists]

\* d[k] = v
Put(d, k, v) == [x \in DOMAIN d \cup {k} |-> IF x = k THEN v ELSE d[x]]

RECURSIVE PutAll(_, _)
\* a run of assignments d[k] = v, as a sequence of <<k, v>>
PutAll(d, kvs) ==
    IF kvs = <<>> THEN d ELSE PutAll(Put(d, Head(kvs)[1], Head(kvs)[2]), Tail(kvs))

NRows(tensor) == Cardinality(DOMAIN tensor)

\* np.concatenate([a, b], axis=0) of two tensors
Concatenate(a, b) ==
    [i \in 0..(NRows(a) + NRows(b) - 1) |->
        IF i < NRows(a) THEN a[i] ELSE b[i - NRows(a)]]

Repeat(v, n) == [i \in 1..n |-> v]

\* the columns of a loaded table: ELAPSED_SEC is computed by the B.League
\* loaders and, for the NBA, by the route from the NBA period length;
\* SEASON_LABEL is a column of the team table only
Columns(kind, df) ==
    [i \in DOMAIN df |->
        [c \in (DOMAIN df[i] \ (IF kind = "team" THEN {} ELSE {"SEASON_LABEL"}))
                   \cup {"ELAPSED_SEC"} |->
            IF c = "ELAPSED_SEC" THEN ELAPSED_SEC(kind, df[i]) ELSE df[i][c]]]

\* load_nba_data(), load_bleague_data() (first sheet), load_bleague_team_data()
LoadTable(league, team) ==
    IF league = "bleague" /\ ~team THEN Columns("bleague", SeasonDf(source, 0))
    ELSE Columns(IF team THEN "team" ELSE league, source)

\* df_all[df_all["PLAYER_ID"].isin(request.player_ids)], and PERIOD <= 4 for the NBA
FilterPlayers(league, df_all, player_ids) ==
    SelectSeq(df_all,
              LAMBDA e : /\ \E i \in DOMAIN player_ids : player_ids[i] = e.PLAYER_ID
                         /\ (league = "nba" => e.PERIOD <= 4))

NoTensors ==
    [status |-> "ok", n |-> 0, tensor |-> EmptyDict, player_labels |-> <<>>,
     all_game_ids |-> <<>>, player_of_game |-> <<>>, meta_any |-> <<>>]

AppendPlayerDense(acc, p_idx, pid, made) ==
    [status |-> "ok",
     n |-> acc.n + 1,
     tensor |-> Concatenate(acc.tensor, made.tensor),
     player_labels |-> acc.player_labels \o Repeat(acc.n, NRows(made.tensor)),
     all_game_ids |-> acc.all_game_ids \o made.game_ids,
     player_of_game |-> acc.player_of_game \o Repeat(pid, NRows(made.tensor)),
     meta_any |-> IF acc.n = 0 THEN made.game_ids ELSE acc.meta_any]

\* one pass of the loop body for a player with rows: append the tensor, the
\* labels, the game ids and the player of each row
AppendPlayer(acc, p_idx, pid, made) ==
    [status |-> "ok",
     n |-> acc.n + 1,
     tensor |-> Concatenate(acc.tensor, made.tensor),
     player_labels |-> acc.player_labels \o Repeat(p_idx, NRows(made.tensor)),
     all_game_ids |-> acc.all_game_ids \o made.game_ids,
     player_of_game |-> acc.player_of_game \o Repeat(pid, NRows(made.tensor)),
     meta_any |-> IF acc.n = 0 THEN made.game_ids ELSE acc.meta_any]

RECURSIVE BuildPlayers(_, _, _, _, _)
\* the loop "for p_idx, pid in enumerate(request.player_ids)", from p_idx on
BuildPlayers(kind, df_player, player_ids, p_idx, acc) ==
    IF p_idx >= Len(player_ids) THEN acc
    ELSE LET pid == player_ids[p_idx + 1]
             df_sub == SelectSeq(df_player, LAMBDA e : e.PLAYER_ID = pid)
         IN  IF df_sub = <<>>
             THEN BuildPlayers(kind, df_player, player_ids, p_idx + 1, acc)
             ELSE LET made == CHOOSE m \in {MakeTensor(kind, df_sub)} : TRUE
                  IN  IF made.status /= "ok"
                      THEN [acc EXCEPT !.status = made.status]
                      ELSE BuildPlayers(kind, df_player, player_ids, p_idx + 1,
                                        AppendPlayer(acc, p_idx, pid, made))

\* the outcome of standardize_tensor_for_tulca and of the Factorizer and
\* Embedder, named by what they were computed from
Standardized(tensor) == [of |-> "standardize", rows |-> NRows(tensor)]

Fitted(by, labels) == [of |-> by, rows |-> Len(labels)]

\* raise HTTPException(status_code=500, detail=f"... failed: {str(e)}") of
\* the "except Exception" of every route; detail names what was raised
Failed(endpoint, detail) ==
    [endpoint |-> endpoint, status |-> 500, detail |-> detail]

Succeeded(endpoint) == [endpoint |-> endpoint, status |-> 200]

\* the assignments app_state[...] = ... at the end of a successful initialize
StoreSnapshot(st, out, df_player, player_ids, team) ==
    PutAll(st, <<
        <<"tensor_raw", out.tensor>>,
        <<"tensor_standardized", Standardized(out.tensor)>>,
        <<"player_labels", out.player_labels>>,
        <<"all_game_ids", out.all_game_ids>>,
        <<"player_of_game", out.player_of_game>>,
        <<"df_player", df_player>>,
        <<"metadata", out.meta_any>>,
        <<"player_ids", player_ids>>,
        <<"proj_mats", Fitted("initialize", out.player_labels)>>,
        <<"scaled_data", Fitted("initialize", out.player_labels)>>,
        <<"embedding", Fitted("initialize", out.player_labels)>> >>
        \o (IF team THEN << <<"analysis_mode", "team_season">> >> ELSE <<>>))

\* the team branch up to the Factorizer: both sheets, one tensor, season labels
BuildTeam(df_all) ==
    LET made == CHOOSE m \in {MakeTensor("team", df_all)} : TRUE
    IN  IF made.status /= "ok" THEN [status |-> made.status, n |-> 0]
        ELSE [status |-> "ok", n |-> NRows(made.tensor),
              tensor |-> made.tensor,
              player_labels |-> made.season_labels,
              all_game_ids |-> made.game_ids,
              player_of_game |-> <<>>,
              meta_any |-> made.game_ids]

\* what a failing initialize raised inside its try block: the builder's
\* IndexError, HTTPException(400) when no player has a tensor, or the ValueError
\* of standardize_tensor_for_tulca on a tensor of zero rows
WhatRaised(team, out) ==
    IF out.status /= "ok" THEN out.status
    ELSE IF team THEN "ValueError"
    ELSE "No data found for specified players"

\* POST /initialize.  ext is what the collaborators do during this request:
\* the Event Source, the Factorizer or the Embedder may raise.
Initialize(req, ext) ==
    LET team == req.league = "bleague" /\ req.analysis_mode = "team_season"
        tbs == IF req.league = "bleague" THEN TIME_BIN_SECONDS_BLEAGUE
               ELSE TIME_BIN_SECONDS_NBA
        st == PutAll(app_state, <<
                  <<"league", req.league>>, <<"time_bin_seconds", tbs>> >>)
        df_all == LoadTable(req.league, team)
        df_player == IF team THEN df_all
                     ELSE FilterPlayers(req.league, df_all, req.player_ids)
    IN  /\ IF ext /= "ok"
           THEN app_state' = st /\ response' = Failed("initialize", "collaborator")
           ELSE \E out \in {IF team THEN BuildTeam(df_all)
                            ELSE BuildPlayers(req.league, df_player,
                                              req.player_ids, 0, NoTensors)} :
                    IF out.status /= "ok" \/ out.n = 0
                    THEN /\ app_state' = st
                         /\ response' = Failed("initialize", WhatRaised(team, out))
                    ELSE /\ app_state' = StoreSnapshot(
                                st, out, df_player,
                                IF team THEN <<>> ELSE req.player_ids, team)
                         /\ response' = Succeeded("initialize")
        /\ UNCHANGED source
        /\ UNCHANGED bvars
        /\ UNCHANGED fvars

Init ==
    /\ source \in Sources
    /\ app_state = EmptyDict
    /\ response = NoResponse
    /\ f_args = NoCall
    /\ f_ret = NoCall
    /\ b_kind = "none"
    /\ b_df = <<>>
    /\ b_pc = "idle"
    /\ g_idx = 0
    /\ r_idx = 0
    /\ data_4d = EmptyDict
    /\ cur = NoRow
    /\ b_out = NoOut

Next ==
    \E req \in Requests : \E ext \in {"ok", "raises"} :
        Initialize(req, ext)

Spec == Init /\ [][Next]_vars

-----------------------------------------------------------------------------
(* Claims about the session state, checked under Spec *)

Initialized ==
    response = Succeeded("initialize")

\* C9 (as claimed): after a successful initialize the game ids of the rows,
\* all_game_ids, are in ascending order.
C9_GameIndexAscending ==
    Initialized =>
        \A i, j \in DOMAIN app_state["all_game_ids"] :
            i < j => app_state["all_game_ids"][i] <= app_state["all_game_ids"][j]

\* C9 (amended): after a successful initialize all_game_ids has one entry per
\* tensor row, the rows of one entity or cohort (one label) follow each other
\* in request order, and inside the rows of one label the game ids ascend
\* strictly.
C9_GameIndexAscendingPerLabel ==
    Initialized =>
        LET ids == app_state["all_game_ids"]
            labels == app_state["player_labels"]
        IN  /\ Len(ids) = NRows(app_state["tensor_raw"])
            /\ Len(labels) = Len(ids)
            /\ \A i, j \in DOMAIN ids :
                   i < j => /\ labels[i] <= labels[j]
                            /\ (labels[i] = labels[j] => ids[i] < ids[j])

\* two entities were initialized with one game each, and the game of the
\* second entity has the smaller id
C9_Witness ==
    /\ Initialized
    /\ app_state["player_labels"] = <<0, 1>>
    /\ app_state["all_game_ids"][1] > app_state["all_game_ids"][2]

\* C11 (as claimed): a builder given no event returns a tensor of zero rows, and
\* an initialize whose requested entities or cohorts have no event at all is not
\* answered with an error (neither "No data found for specified players" nor the
\* ValueError that standardizing zero rows raises).
C11_ZeroRowsAreNotAnError ==
    /\ \A kind \in {"nba", "bleague", "team"} :
           /\ MakeTensor(kind, <<>>).status = "ok"
           /\ NRows(MakeTensor(kind, <<>>).tensor) = 0
    /\ (response.endpoint = "initialize" /\ response.status = 500) =>
           response.detail \notin {"No data found for specified players",
                                   "ValueError"}

-----------------------------------------------------------------------------
(* The analysis functions, one call each.  Raw tensors are given with two   *)
(* time bins and two cells; a rational number n/d is the pair <<n, d>>.     *)

MaxGames == 2

FnTimeBins == 0..1

FnCells == 0..1

RECURSIVE AddShots(_, _)
\* the += lines of the builder's loop for the shots of one position
AddShots(ch, shots) ==
    IF shots = <<>> THEN ch ELSE AddShots(AddShot(ch, Head(shots)), Tail(shots))

FnShot(sh) == Shot(1, 0, BaseTime, BaseLoc, sh)

\* the shots of one position: none; three attempts with two made two-pointers;
\* four attempts with one made three-pointer; one made two-pointer; one miss
NoShots == <<>>

ThreeTwoMade == <<FnShot(Make2), FnShot(Make2), FnShot(Miss2)>>

FourOneMade == <<FnShot(Make3), FnShot(Miss2), FnShot(Miss2), FnShot(Miss2)>>

OneMade == <<FnShot(Make2)>>

OneMiss == <<FnShot(Miss2)>>

\* the shots of one game as <<time bin 0, time bin 1>>, each <<cell 0, cell 1>>
GameShots ==
    {<< <<NoShots, NoShots>>, <<NoShots, NoShots>> >>,
     << <<ThreeTwoMade, NoShots>>, <<NoShots, NoShots>> >>,
     << <<NoShots, FourOneMade>>, <<NoShots, NoShots>> >>,
     << <<ThreeTwoMade, NoShots>>, <<OneMiss, OneMade>> >>,
     << <<OneMade, NoShots>>, <<NoShots, NoShots>> >>}

\* the row of the raw tensor a builder makes of these shots
RawRow(kind, game) ==
    [t \in FnTimeBins |-> [v \in FnCells |->
        data_6ch(kind, AddShots([c \in 0..3 |-> 0], game[t + 1][v + 1]))]]

\* raw tensors of the NBA builder (5 channels) and of the B.League builders (6)
RawTensors ==
    UNION {{[C_ |-> n_channels(kind),
             tensor |-> [g \in 0..(n - 1) |-> RawRow(kind, games[g + 1])]] :
               games \in [1..n -> GameShots]} :
           n \in 0..MaxGames, kind \in {"nba", "bleague"}}

RECURSIVE Prod(_, _)
Prod(f, S) ==
    IF S = {} THEN 1
    ELSE LET x == CHOOSE y \in S : TRUE IN f[x] * Prod(f, S \ {x})

Games(tensor) == DOMAIN tensor

Positions == FnTimeBins \X FnCells

\* total_attempts = tensor[:, :, :, 0].sum(axis=(1, 2)), zeros replaced by 1
total_attempts(tensor, g) ==
    LET total == Sum([p \in Positions |-> tensor[g][p[1]][p[2]][0]], Positions)
    IN  IF total = 0 THEN 1 ELSE total

VolumeNormalizeAllChannels(tensor, C_) ==
    [g \in Games(tensor) |-> [t \in FnTimeBins |-> [v \in FnCells |->
        [c \in 0..(C_ - 1) |-> <<tensor[g][t][v][c], total_attempts(tensor, g)>>]]]]

\* step 1: tensor_norm = tensor.copy(), and for C_ > 5
\* tensor_norm[:, :, :, 5:6] = tensor[:, :, :, 5:6] / total_attempts_expanded
VolumeNormalize(tensor, C_) ==
    [g \in Games(tensor) |-> [t \in FnTimeBins |-> [v \in FnCells |->
        [c \in 0..(C_ - 1) |->
            IF C_ > 5 /\ c = 5
            THEN <<tensor[g][t][v][c], total_attempts(tensor, g)>>
            ELSE <<tensor[g][t][v][c], 1>>]]]]

\* one column of channel_data: the values of channel c at (t, v) of every game,
\* brought to the common denominator of the column (z-scores do not depend on
\* the unit)
Column(tensor_norm, t, v, c) ==
    LET den == Prod([g \in Games(tensor_norm) |-> tensor_norm[g][t][v][c][2]],
                    Games(tensor_norm))
    IN  [g \in Games(tensor_norm) |->
            tensor_norm[g][t][v][c][1] * (den \div tensor_norm[g][t][v][c][2])]

FitTransformUncentred(x) ==
    LET T_ == Cardinality(DOMAIN x)
        dev == [g \in DOMAIN x |-> T_ * x[g]]
        sumsq == Sum([g \in DOMAIN x |-> dev[g] * dev[g]], DOMAIN x)
    IN  [g \in DOMAIN x |-> [dev |-> dev[g], sumsq |-> sumsq, T_ |-> T_]]

\* StandardScaler on one column x of T_ values: x - mean is dev / T_ and the
\* variance is sumsq / T_^3, so the scaled value is dev * sqrt(T_) / sqrt(sumsq),
\* and dev / T_ (scale 1) when the variance is 0
FitTransform(x) ==
    LET T_ == Cardinality(DOMAIN x)
        dev == [g \in DOMAIN x |-> T_ * x[g] - Sum(x, DOMAIN x)]
        sumsq == Sum([g \in DOMAIN x |-> dev[g] * dev[g]], DOMAIN x)
    IN  [g \in DOMAIN x |-> [dev |-> dev[g], sumsq |-> sumsq, T_ |-> T_]]

\* step 2: every channel reshaped to (T_, S_ * V_) and scaled column by column;
\* reshape(0, -1) and StandardScaler both raise ValueError on zero rows
ZScore(tensor_norm, C_) ==
    [g \in Games(tensor_norm) |-> [t \in FnTimeBins |-> [v \in FnCells |->
        [c \in 0..(C_ - 1) |-> FitTransform(Column(tensor_norm, t, v, c))[g]]]]]

standardize_tensor_for_tulca(tensor, C_) ==
    LET tensor_norm == VolumeNormalize(tensor, C_)
    IN  IF Games(tensor) = {} /\ C_ > 0
        THEN [fn |-> "standardize_tensor_for_tulca", status |-> "ValueError",
              tensor_norm |-> tensor_norm]
        ELSE [fn |-> "standardize_tensor_for_tulca", status |-> "ok",
              tensor_norm |-> tensor_norm,
              result |-> ZScore(tensor_norm, C_)]

StandardizeTensor ==
    /\ f_args.fn = "tensor"
    /\ f_ret = NoCall
    /\ f_ret' = standardize_tensor_for_tulca(f_args.tensor, f_args.C_)
    /\ UNCHANGED f_args
    /\ UNCHANGED bvars
    /\ UNCHANGED svars

-----------------------------------------------------------------------------
(* Aggregations.  An Optional argument is the set of at most one value: {}  *)
(* is None.                                                                 *)

MaxSelected == 2

\* cluster_idx: None, or a list of row indices of the tensor (repeats allowed)
Selections(tensor) ==
    {{}} \cup {{idx} : idx \in UNION {[1..n -> Games(tensor)] : n \in 0..MaxSelected}}

AllRowsAlways(tensor_raw, cluster_idx) ==
    [k \in 1..NRows(tensor_raw) |-> k - 1]

\* the rows that are summed: all of them for None or an empty list, else
\* tensor_raw[idx] with idx = np.array(cluster_idx, dtype=int)
SelectedRows(tensor_raw, cluster_idx) ==
    IF cluster_idx = {} \/ cluster_idx = {<<>>}
    THEN [k \in 1..NRows(tensor_raw) |-> k - 1]
    ELSE CHOOSE idx \in cluster_idx : TRUE

\* the time bins and the cells of a tensor (games, time, cell, channel); a
\* tensor without games is one of the analysis inputs
TimeBinsOf(tensor_raw) ==
    IF NRows(tensor_raw) = 0 THEN FnTimeBins ELSE DOMAIN tensor_raw[0]

CellsOf(tensor_raw) ==
    IF NRows(tensor_raw) = 0 THEN FnCells ELSE DOMAIN tensor_raw[0][0]

aggregate_cluster_counts_raw(tensor_raw, cluster_idx, channel) ==
    LET idx == SelectedRows(tensor_raw, cluster_idx)
    IN  [t \in TimeBinsOf(tensor_raw) |-> [v \in CellsOf(tensor_raw) |->
            Sum([k \in DOMAIN idx |-> tensor_raw[idx[k]][t][v][channel]],
                DOMAIN idx)]]

\* the unit of a channel: efg_weight is held in tenths
Unit(channel) == IF channel = 3 THEN 10 ELSE 1

DivideAlways(num, attempts, channel) == <<num, Unit(channel) * attempts>>

\* np.divide(num, attempts, out=np.zeros_like(num), where=(attempts > 0)) of
\* one entry, num being a sum of the given channel
Divide(num, attempts, channel) ==
    IF attempts > 0 THEN <<num, Unit(channel) * attempts>> ELSE <<0, 1>>

\* channel=2 if weighted else 1
ProbChannel(weighted) == IF weighted THEN 2 ELSE 1

aggregate_cluster_prob_raw(tensor_raw, cluster_idx, weighted) ==
    LET attempts == aggregate_cluster_counts_raw(tensor_raw, cluster_idx, 0)
        num == aggregate_cluster_counts_raw(tensor_raw, cluster_idx,
                                            ProbChannel(weighted))
    IN  [prob |-> [t \in DOMAIN num |-> [v \in DOMAIN num[t] |->
                      Divide(num[t][v], attempts[t][v], ProbChannel(weighted))]],
         attempts |-> attempts]

\* counts.sum(axis=0): the sum over the time bins, cell by cell
SumOverTime(counts) ==
    [v \in DOMAIN counts[0] |->
        Sum([t \in DOMAIN counts |-> counts[t][v]], DOMAIN counts)]

AverageOfRatios(tensor_raw, cluster_idx, num_channel) ==
    LET num == aggregate_cluster_counts_raw(tensor_raw, cluster_idx, num_channel)
        att == aggregate_cluster_counts_raw(tensor_raw, cluster_idx, 0)
    IN  [v \in FnCells |->
            <<Sum([t \in FnTimeBins |->
                      IF att[t][v] > 0
                      THEN num[t][v] * Prod([u \in FnTimeBins \ {t} |->
                                                IF att[u][v] > 0 THEN att[u][v] ELSE 1],
                                            FnTimeBins \ {t})
                      ELSE 0], FnTimeBins),
              Unit(num_channel) * Cardinality(FnTimeBins)
                  * Prod([u \in FnTimeBins |->
                             IF att[u][v] > 0 THEN att[u][v] ELSE 1], FnTimeBins)>>]

\* the "Aggregate across time" branch: numerator and attempts are summed over
\* time, then divided once
RatioOverTime(tensor_raw, cluster_idx, num_channel) ==
    LET num == SumOverTime(
                   aggregate_cluster_counts_raw(tensor_raw, cluster_idx, num_channel))
        att == SumOverTime(aggregate_cluster_counts_raw(tensor_raw, cluster_idx, 0))
    IN  [v \in DOMAIN num |-> Divide(num[v], att[v], num_channel)]

\* the body of POST /aggregate-cluster once tensor_raw is there
aggregate_cluster(tensor_raw, request) ==
    IF request.channel = 0
    THEN LET counts == aggregate_cluster_counts_raw(
                           tensor_raw, {request.cluster_idx}, 0)
         IN  [fn |-> "aggregate_cluster", request |-> request,
              values |-> IF request.time_bin /= {}
                         THEN counts[CHOOSE t \in request.time_bin : TRUE]
                         ELSE SumOverTime(counts),
              attempts |-> {}]
    ELSE LET pa == aggregate_cluster_prob_raw(
                       tensor_raw, {request.cluster_idx}, request.weighted)
             num_channel == IF request.weighted THEN 3 ELSE 1
         IN  IF request.time_bin /= {}
             THEN [fn |-> "aggregate_cluster", request |-> request,
                   values |-> pa.prob[CHOOSE t \in request.time_bin : TRUE],
                   attempts |-> {pa.attempts[CHOOSE t \in request.time_bin : TRUE]}]
             ELSE [fn |-> "aggregate_cluster", request |-> request,
                   values |-> RatioOverTime(
                                  tensor_raw, {request.cluster_idx}, num_channel),
                   attempts |-> {SumOverTime(pa.attempts)}]

\* AggregateClusterRequest
AggregateRequests(tensor) ==
    [cluster_idx : UNION {[1..n -> Games(tensor)] : n \in 0..MaxSelected},
     channel : 0..2,
     weighted : BOOLEAN,
     time_bin : {{}} \cup {{t} : t \in FnTimeBins}]

AggregateCounts(cluster_idx, channel) ==
    /\ f_args.fn = "tensor"
    /\ f_ret = NoCall
    /\ f_ret' = [fn |-> "aggregate_cluster_counts_raw",
                 cluster_idx |-> cluster_idx, channel |-> channel,
                 counts |-> aggregate_cluster_counts_raw(
                                f_args.tensor, cluster_idx, channel)]
    /\ UNCHANGED f_args
    /\ UNCHANGED bvars
    /\ UNCHANGED svars

AggregateProb(cluster_idx, weighted) ==
    /\ f_args.fn = "tensor"
    /\ f_ret = NoCall
    /\ f_ret' = [fn |-> "aggregate_cluster_prob_raw",
                 cluster_idx |-> cluster_idx, weighted |-> weighted,
                 ret |-> aggregate_cluster_prob_raw(
                             f_args.tensor, cluster_idx, weighted)]
    /\ UNCHANGED f_args
    /\ UNCHANGED bvars
    /\ UNCHANGED svars

AggregateCluster(request) ==
    /\ f_args.fn = "tensor"
    /\ f_ret = NoCall
    /\ f_ret' = aggregate_cluster(f_args.tensor, request)
    /\ UNCHANGED f_args
    /\ UNCHANGED bvars
    /\ UNCHANGED svars

-----------------------------------------------------------------------------
(* Classification data and the contribution map.  Matrices and vectors are *)
(* 0-based; the latent space is s = 2 by v = 2, the original S = 2 by V = 2 *)

MaxClusterLen == 3

\* X.shape[0] < 5
MIN_SAMPLES == 5

LatentT == 0..1

LatentV == 0..1

FromRows(rows) ==
    [i \in 0..(Len(rows) - 1) |->
        [j \in 0..(Len(rows[i + 1]) - 1) |-> rows[i + 1][j + 1]]]

\* projection matrices (rows: original bins or cells, columns: latent axes)
ProjMats ==
    {FromRows(<< <<1, 2>>, <<3, 4>> >>),
     FromRows(<< <<0, -1>>, <<1, 0>> >>),
     FromRows(<< <<2, 0>>, <<-1, 1>> >>)}

\* a projection matrix of the channel mode: two channels on one latent axis
ChannelMats == {FromRows(<< <<1>>, <<2>> >>)}

\* proj_mats as given to compute_contribution_tensor: the matrices of the time
\* and space modes, and those of the time, space and channel modes
ProjMatLists ==
    {<<Mt, Mv>> : Mt \in ProjMats, Mv \in ProjMats}
    \cup {<<Mt, Mv, Mc>> : Mt \in ProjMats, Mv \in ProjMats, Mc \in ChannelMats}

\* feature_importances_ of a trained forest, in tenths: no split at all, one
\* feature only, all features
Importances ==
    {[k \in 0..3 |-> 0],
     [k \in 0..3 |-> IF k = 1 THEN 10 ELSE 0],
     [k \in 0..3 |-> k + 1]}

\* the numbers of games (rows of scaled_data) of the latent inputs
LatentGames == 1..2

\* scaled_data of n games: row g holds the features 10 g + k
ScaledData(n) ==
    [g \in 0..(n - 1) |-> [k \in 0..3 |-> 10 * g + k]]

\* cluster1_idx, cluster2_idx: lists of row indices, repeats allowed
ClusterLists(scaled_data) ==
    UNION {[1..n -> DOMAIN scaled_data] : n \in 0..MaxClusterLen}

LabelsSwapped(cluster1_idx, cluster2_idx, scaled_data) ==
    [X |-> [k \in 1..(Len(cluster1_idx) + Len(cluster2_idx)) |->
               IF k <= Len(cluster1_idx)
               THEN scaled_data[cluster1_idx[k]]
               ELSE scaled_data[cluster2_idx[k - Len(cluster1_idx)]]],
     y |-> [k \in 1..(Len(cluster1_idx) + Len(cluster2_idx)) |->
               IF k <= Len(cluster1_idx) THEN 0 ELSE 1]]

\* X = np.concatenate([scaled_data[cluster1_idx], scaled_data[cluster2_idx]]),
\* y = ones(len(cluster1_idx)) then zeros(len(cluster2_idx))
create_binary_classification_data(cluster1_idx, cluster2_idx, scaled_data) ==
    [X |-> [k \in 1..(Len(cluster1_idx) + Len(cluster2_idx)) |->
               IF k <= Len(cluster1_idx)
               THEN scaled_data[cluster1_idx[k]]
               ELSE scaled_data[cluster2_idx[k - Len(cluster1_idx)]]],
     y |-> [k \in 1..(Len(cluster1_idx) + Len(cluster2_idx)) |->
               IF k <= Len(cluster1_idx) THEN 1 ELSE 0]]

\* whether compute_feature_importance trains the forest
Trains(X, y) ==
    ~(Len(X) < MIN_SAMPLES \/ Cardinality({y[k] : k \in DOMAIN y}) < 2)

\* np.zeros(X.shape[1]) without training, else rf.feature_importances_
compute_feature_importance(X, y, rf_importance) ==
    IF Trains(X, y) THEN rf_importance ELSE [k \in 0..3 |-> 0]

ReshapeColumnMajor(importance) ==
    [i \in LatentT |-> [j \in LatentV |->
        importance[j * Cardinality(LatentT) + i]]]

\* importance.reshape(s, v)
ReshapeRowMajor(importance) ==
    [i \in LatentT |-> [j \in LatentV |->
        importance[i * Cardinality(LatentV) + j]]]

\* Mt @ importance_mat @ Mv.T
Bilinear(Mt, importance_mat, Mv) ==
    [a \in DOMAIN Mt |-> [b \in DOMAIN Mv |->
        Sum([ij \in LatentT \X LatentV |->
                Mt[a][ij[1]] * importance_mat[ij[1]][ij[2]] * Mv[b][ij[2]]],
            LatentT \X LatentV)]]

AbsDropped(x) == x

\* np.abs
Abs(x) == IF x < 0 THEN -x ELSE x

\* the default of the parameter normalize_zscore: bool = True
normalize_zscore_default == TRUE

\* normalize_zscore is the set of at most one value passed for the parameter;
\* the body does not read it.  "Mt, Mv = [...]" raises ValueError unless
\* proj_mats holds exactly two matrices, after the forest was trained.
compute_contribution_tensor(cluster1_idx, cluster2_idx, scaled_data, proj_mats, rf_importance, normalize_zscore) ==
    LET Xy == create_binary_classification_data(
                  cluster1_idx, cluster2_idx, scaled_data)
        importance == compute_feature_importance(Xy.X, Xy.y, rf_importance)
        Mt == proj_mats[1]
        Mv == proj_mats[2]
        product == IF Len(proj_mats) /= 2 THEN <<>>
                   ELSE Bilinear(Mt, ReshapeRowMajor(importance), Mv)
    IN  [fn |-> "compute_contribution_tensor",
         status |-> IF Len(proj_mats) /= 2 THEN "ValueError" ELSE "ok",
         cluster1_idx |-> cluster1_idx, cluster2_idx |-> cluster2_idx,
         normalize_zscore |-> IF normalize_zscore = {} THEN normalize_zscore_default
                              ELSE CHOOSE b \in normalize_zscore : TRUE,
         trained |-> Trains(Xy.X, Xy.y),
         importance |-> importance,
         product |-> product,
         contrib_tensor |-> [a \in DOMAIN product |-> [b \in DOMAIN product[a] |->
                                Abs(product[a][b])]]]

CreateData(cluster1_idx, cluster2_idx) ==
    /\ f_args.fn = "latent"
    /\ f_ret = NoCall
    /\ f_ret' = [fn |-> "create_binary_classification_data",
                 cluster1_idx |-> cluster1_idx, cluster2_idx |-> cluster2_idx,
                 ret |-> create_binary_classification_data(
                             cluster1_idx, cluster2_idx, f_args.scaled_data)]
    /\ UNCHANGED f_args
    /\ UNCHANGED bvars
    /\ UNCHANGED svars

\* rf_importance is what the forest would report if it is trained
ComputeContribution(cluster1_idx, cluster2_idx, rf_importance, normalize_zscore) ==
    /\ f_args.fn = "latent"
    /\ f_ret = NoCall
    /\ f_ret' = compute_contribution_tensor(
                    cluster1_idx, cluster2_idx, f_args.scaled_data,
                    f_args.proj_mats, rf_importance, normalize_zscore)
    /\ UNCHANGED f_args
    /\ UNCHANGED bvars
    /\ UNCHANGED svars

-----------------------------------------------------------------------------
(* One call of an analysis function on given arguments *)

InitFn ==
    /\ f_args \in {[fn |-> "tensor", tensor |-> r.tensor, C_ |-> r.C_] :
                      r \in RawTensors}
                  \cup {[fn |-> "latent", scaled_data |-> ScaledData(n),
                         proj_mats |-> proj_mats] :
                           n \in LatentGames, proj_mats \in ProjMatLists}
    /\ f_ret = NoCall
    /\ source = <<>>
    /\ app_state = EmptyDict
    /\ response = NoResponse
    /\ b_kind = "none"
    /\ b_df = <<>>
    /\ b_pc = "idle"
    /\ g_idx = 0
    /\ r_idx = 0
    /\ data_4d = EmptyDict
    /\ cur = NoRow
    /\ b_out = NoOut

NextFn ==
    /\ f_ret = NoCall
    /\ \/ StandardizeTensor
       \/ /\ f_args.fn = "tensor"
          /\ \E cluster_idx \in Selections(f_args.tensor) :
             \E channel \in 0..(f_args.C_ - 1) :
                 AggregateCounts(cluster_idx, channel)
       \/ /\ f_args.fn = "tensor"
          /\ \E cluster_idx \in Selections(f_args.tensor) : \E weighted \in BOOLEAN :
                 AggregateProb(cluster_idx, weighted)
       \/ /\ f_args.fn = "tensor"
          /\ \E request \in AggregateRequests(f_args.tensor) : AggregateCluster(request)
       \/ /\ f_args.fn = "latent"
          /\ \E c1 \in ClusterLists(f_args.scaled_data) :
             \E c2 \in ClusterLists(f_args.scaled_data) :
                 CreateData(c1, c2)
       \/ /\ f_args.fn = "latent"
          /\ \E c1 \in ClusterLists(f_args.scaled_data) :
             \E c2 \in ClusterLists(f_args.scaled_data) :
             \E rf_importance \in Importances :
             \E normalize_zscore \in {{}, {TRUE}, {FALSE}} :
                 ComputeContribution(c1, c2, rf_importance, normalize_zscore)

SpecFn == InitFn /\ [][NextFn]_vars

-----------------------------------------------------------------------------
(* Claims about the analysis functions, checked under SpecFn *)

Standardized2 == f_ret.fn = "standardize_tensor_for_tulca"

\* a game's attempts summed over time and cell
GameAttempts(g) ==
    Sum([p \in Positions |-> f_args.tensor[g][p[1]][p[2]][0]], Positions)

\* C12: volume normalization keeps the shape, leaves every channel but the
\* frequency channel (5) as in the input, and gives the frequency channel of a
\* game its input value divided by the game's total attempts, or by 1 when that
\* total is 0; every divisor is positive, so no NaN or Inf arises.
C12_VolumeNormalizationFrequencyOnly ==
    Standardized2 =>
        /\ DOMAIN f_ret.tensor_norm = DOMAIN f_args.tensor
        /\ \A g \in DOMAIN f_args.tensor : \A t \in FnTimeBins : \A v \in FnCells :
               /\ DOMAIN f_ret.tensor_norm[g][t][v] = DOMAIN f_args.tensor[g][t][v]
               /\ \A c \in DOMAIN f_args.tensor[g][t][v] :
                      LET q == f_ret.tensor_norm[g][t][v][c]
                          x == f_args.tensor[g][t][v][c]
                          total == IF GameAttempts(g) = 0 THEN 1 ELSE GameAttempts(g)
                      IN  /\ q[2] > 0
                          /\ c /= 5 => q[1] = x * q[2]
                          /\ c = 5 => q[1] * total = x * q[2]

\* a six-channel tensor of two games was normalized: a game with five attempts,
\* three of them at (0, 0), and a game without any attempt
C12_Witness ==
    /\ Standardized2
    /\ f_args.C_ = 6
    /\ \E g, h \in DOMAIN f_args.tensor :
           /\ GameAttempts(g) = 5
           /\ f_ret.tensor_norm[g][0][0][5] = <<3, 5>>
           /\ f_ret.tensor_norm[g][0][0][0] = <<3, 1>>
           /\ GameAttempts(h) = 0
           /\ f_ret.tensor_norm[h][0][0][5] = <<0, 1>>

\* the rational a is less than the rational b (positive denominators)
RatLess(a, b) == a[1] * b[2] < b[1] * a[2]

\* C13: in the returned tensor, for every channel and every (time bin, cell),
\* the values across the games (dev * sqrt(T_) / sqrt(sumsq), or dev / T_ when
\* sumsq is 0) have mean 0 and standard deviation 1 and keep the order of the
\* column's values; a column that is constant across the games is all zeros.
\* Only the values of the column itself enter.
C13_ColumnsHaveMeanZeroStdOne ==
    (Standardized2 /\ f_ret.status = "ok") =>
        \A t \in FnTimeBins : \A v \in FnCells : \A c \in 0..(f_args.C_ - 1) :
            LET G == DOMAIN f_args.tensor
                z == [g \in G |-> f_ret.result[g][t][v][c]]
                x == [g \in G |-> f_ret.tensor_norm[g][t][v][c]]
                constant == \A g, h \in G : ~RatLess(x[g], x[h])
            IN  /\ Sum([g \in G |-> z[g].dev], G) = 0
                /\ \A g \in G : z[g].T_ = Cardinality(G)
                /\ \A g, h \in G : z[g].sumsq = z[h].sumsq
                /\ \A g, h \in G : RatLess(x[g], x[h]) <=> z[g].dev < z[h].dev
                /\ constant => \A g \in G : z[g].dev = 0
                /\ ~constant =>
                       \A g \in G :
                           /\ z[g].sumsq > 0
                           /\ Sum([h \in G |-> z[h].dev * z[h].dev], G) = z[g].sumsq

\* two games with the same three attempts at (0, 0) but different totals: the
\* attempts column is constant and comes out as zeros, the frequency column
\* (3/3 and 3/5) is not and comes out with opposite signs
C13_Witness ==
    /\ Standardized2
    /\ f_ret.status = "ok"
    /\ f_args.C_ = 6
    /\ DOMAIN f_args.tensor = 0..1
    /\ f_args.tensor[0][0][0][0] = 3 /\ f_args.tensor[1][0][0][0] = 3
    /\ f_ret.result[0][0][0][0].dev = 0 /\ f_ret.result[1][0][0][0].dev = 0
    /\ f_ret.result[0][0][0][5].dev > 0 /\ f_ret.result[1][0][0][5].dev < 0

\* how often row g is selected: once for None or an empty list (all rows), else
\* the number of times g occurs in the list
TimesSelected(cluster_idx, g) ==
    IF cluster_idx = {} \/ cluster_idx = {<<>>} THEN 1
    ELSE LET idx == CHOOSE i \in cluster_idx : TRUE
         IN  Cardinality({k \in DOMAIN idx : idx[k] = g})

\* the sum of one channel at (t, v) over the selected rows of the given tensor
SelectedSum(cluster_idx, t, v, channel) ==
    Sum([g \in DOMAIN f_args.tensor |->
            TimesSelected(cluster_idx, g) * f_args.tensor[g][t][v][channel]],
        DOMAIN f_args.tensor)

\* C14: the array aggregate_cluster_counts_raw returns holds at every (time,
\* cell) the sum of the channel over exactly the selected rows; None and the
\* empty list select all rows; the call leaves its tensor as it was.
C14_CountsSumSelectedRows ==
    /\ [](f_ret.fn = "aggregate_cluster_counts_raw" =>
              \A t \in FnTimeBins : \A v \in FnCells :
                  f_ret.counts[t][v]
                      = SelectedSum(f_ret.cluster_idx, t, v, f_ret.channel))
    /\ [][f_ret'.fn = "aggregate_cluster_counts_raw" => f_args' = f_args]_vars

\* of two games with attempts the second one alone was selected: the counts are
\* its row, not the total
C14_Witness ==
    /\ f_ret.fn = "aggregate_cluster_counts_raw"
    /\ f_ret.cluster_idx = {<<1>>}
    /\ f_ret.channel = 0
    /\ DOMAIN f_args.tensor = 0..1
    /\ f_args.tensor[0][0][0][0] = 3
    /\ f_args.tensor[1][0][1][0] = 4
    /\ f_ret.counts[0][0] = 0
    /\ f_ret.counts[0][1] = 4

\* C15: aggregate_cluster_prob_raw returns the attempts summed over the
\* selected rows and a ratio with ratio * attempts = summed numerator (makes, or
\* channel 2 for a weighted call) where attempts > 0 and ratio = 0 where attempts
\* = 0, never a division by zero; two games with attempts [3,0], [0,4] and makes
\* [2,0], [0,1] give ratios [2/3, 1/4] and attempts [3, 4] for all rows.
C15_RatioTimesAttemptsIsNumerator ==
    f_ret.fn = "aggregate_cluster_prob_raw" =>
        /\ \A t \in FnTimeBins : \A v \in FnCells :
               LET ratio == f_ret.ret.prob[t][v]
                   attempts == f_ret.ret.attempts[t][v]
                   num == SelectedSum(f_ret.cluster_idx, t, v,
                                      IF f_ret.weighted THEN 2 ELSE 1)
               IN  /\ attempts = SelectedSum(f_ret.cluster_idx, t, v, 0)
                   /\ ratio[2] > 0
                   /\ attempts > 0 => ratio[1] * attempts = num * ratio[2]
                   /\ attempts = 0 => ratio[1] = 0
        /\ (/\ DOMAIN f_args.tensor = 0..1
            /\ f_ret.cluster_idx \in {{}, {<<>>}, {<<0, 1>>}}
            /\ ~f_ret.weighted
            /\ \A v \in FnCells :
                   /\ f_args.tensor[0][0][v][0] = (IF v = 0 THEN 3 ELSE 0)
                   /\ f_args.tensor[0][0][v][1] = (IF v = 0 THEN 2 ELSE 0)
                   /\ f_args.tensor[1][0][v][0] = (IF v = 0 THEN 0 ELSE 4)
                   /\ f_args.tensor[1][0][v][1] = (IF v = 0 THEN 0 ELSE 1))
           => /\ f_ret.ret.prob[0][0] = <<2, 3>>
              /\ f_ret.ret.prob[0][1] = <<1, 4>>
              /\ f_ret.ret.attempts[0] = [v \in FnCells |-> IF v = 0 THEN 3 ELSE 4]

\* the two games of the example, all rows, unweighted; the second time bin is
\* empty and its ratios are 0
C15_Witness ==
    /\ f_ret.fn = "aggregate_cluster_prob_raw"
    /\ f_ret.cluster_idx = {<<>>}
    /\ ~f_ret.weighted
    /\ DOMAIN f_args.tensor = 0..1
    /\ f_args.tensor[0][0][0][0] = 3 /\ f_args.tensor[0][0][0][1] = 2
    /\ f_args.tensor[1][0][1][0] = 4 /\ f_args.tensor[1][0][1][1] = 1
    /\ f_ret.ret.prob[0] = [v \in FnCells |-> IF v = 0 THEN <<2, 3>> ELSE <<1, 4>>]
    /\ f_ret.ret.attempts[0] = [v \in FnCells |-> IF v = 0 THEN 3 ELSE 4]
    /\ f_ret.ret.prob[1][0] = <<0, 1>>

RatEq(a, b) == a[1] * b[2] = b[1] * a[2]

\* the sum of one channel at cell v over all time bins and the selected rows
SelectedSumOverTime(cluster_idx, v, channel) ==
    Sum([t \in FnTimeBins |-> SelectedSum(cluster_idx, t, v, channel)], FnTimeBins)

\* C16: a ratio request (channel 1 or 2) without a time bin is answered, cell by
\* cell, with numerator (makes; efg_weight when weighted) and attempts each
\* summed over all time bins and the selected rows and divided once, 0 where the
\* summed attempts are 0; with a time bin it is answered with that bin's slice
\* of aggregate_cluster_prob_raw.
C16_SumOverTimeThenDivide ==
    (f_ret.fn = "aggregate_cluster" /\ f_ret.request.channel /= 0) =>
        LET request == f_ret.request
            channel == IF request.weighted THEN 3 ELSE 1
        IN  /\ request.time_bin = {} =>
                   \A v \in FnCells :
                       LET num == SelectedSumOverTime({request.cluster_idx}, v, channel)
                           att == SelectedSumOverTime({request.cluster_idx}, v, 0)
                       IN  /\ f_ret.attempts = {[u \in FnCells |->
                                  SelectedSumOverTime({request.cluster_idx}, u, 0)]}
                           /\ f_ret.values[v][2] > 0
                           /\ att > 0 => f_ret.values[v][1] * att * Unit(channel)
                                             = num * f_ret.values[v][2]
                           /\ att = 0 => f_ret.values[v][1] = 0
            /\ \A t \in request.time_bin :
                   LET pa == aggregate_cluster_prob_raw(
                                 f_args.tensor, {request.cluster_idx}, request.weighted)
                   IN  /\ f_ret.values = pa.prob[t]
                       /\ f_ret.attempts = {pa.attempts[t]}

\* one game with 2 of 3 made at cell 0 in the first time bin and 0 of 1 in the
\* second: the all-time ratio is 2/4, while the per-bin ratios average to 1/3
C16_Witness ==
    /\ f_ret.fn = "aggregate_cluster"
    /\ f_ret.request.channel = 1
    /\ ~f_ret.request.weighted
    /\ f_ret.request.time_bin = {}
    /\ DOMAIN f_args.tensor = 0..0
    /\ f_args.tensor[0][0][0][0] = 3 /\ f_args.tensor[0][0][0][1] = 2
    /\ f_args.tensor[0][1][0][0] = 1 /\ f_args.tensor[0][1][0][1] = 0
    /\ f_ret.values[0] = <<2, 4>>
    /\ f_ret.attempts = {[v \in FnCells |-> IF v = 0 THEN 4 ELSE 1]}

\* C17 (as claimed): the ratio of a weighted request times its attempts is the
\* efg_weight channel (1.0 or 1.5 per make) summed over the selected rows, that
\* of an unweighted request the makes channel, with a time bin as well as over
\* all time; the all-time numerator is the sum over the time bins of ratio *
\* attempts of the per-bin answers.
C17_SameNumeratorPerBinAndOverTime ==
    (f_ret.fn = "aggregate_cluster" /\ f_ret.request.channel /= 0) =>
        LET request == f_ret.request
            channel == IF request.weighted THEN 3 ELSE 1
            PerBin(t) == aggregate_cluster(
                             f_args.tensor, [request EXCEPT !.time_bin = {t}])
        IN  /\ \A t \in request.time_bin : \A v \in FnCells :
                   f_ret.values[v][1] * SelectedSum({request.cluster_idx}, t, v, 0)
                         * Unit(channel)
                       = SelectedSum({request.cluster_idx}, t, v, channel)
                         * f_ret.values[v][2]
            /\ request.time_bin = {} =>
                   \A v \in FnCells : \A t \in FnTimeBins :
                       PerBin(t).values[v][1]
                             * SelectedSum({request.cluster_idx}, t, v, 0)
                             * Unit(channel)
                           = SelectedSum({request.cluster_idx}, t, v, channel)
                             * PerBin(t).values[v][2]

\* C18: create_binary_classification_data returns X with the rows of cluster1
\* in list order followed by those of cluster2, and y with 1 for the former and
\* 0 for the latter; overlapping or repeated indices are taken as they come, and
\* scaled_data is left as it was.
C18_ClassificationDataLayout ==
    /\ [](f_ret.fn = "create_binary_classification_data" =>
              LET c1 == f_ret.cluster1_idx
                  c2 == f_ret.cluster2_idx
                  X == f_ret.ret.X
                  y == f_ret.ret.y
              IN  /\ Len(X) = Len(c1) + Len(c2)
                  /\ Len(y) = Len(X)
                  /\ \A k \in 1..Len(c1) :
                         X[k] = f_args.scaled_data[c1[k]] /\ y[k] = 1
                  /\ \A k \in 1..Len(c2) :
                         /\ X[Len(c1) + k] = f_args.scaled_data[c2[k]]
                         /\ y[Len(c1) + k] = 0)
    /\ [][f_ret'.fn = "create_binary_classification_data" => f_args' = f_args]_vars

\* row 1 is in both clusters: it appears twice in X, once with label 1 and once
\* with label 0
C18_Witness ==
    /\ f_ret.fn = "create_binary_classification_data"
    /\ f_ret.cluster1_idx = <<1, 0>>
    /\ f_ret.cluster2_idx = <<1>>
    /\ f_ret.ret.X = <<f_args.scaled_data[1], f_args.scaled_data[0],
                       f_args.scaled_data[1]>>
    /\ f_ret.ret.y = <<1, 1, 0>>

\* the distinct rows named by a list
RowsOf(idx) == {idx[k] : k \in DOMAIN idx}

\* C19 (as claimed): whenever cluster1 and cluster2 name fewer than 5 distinct
\* rows together, compute_contribution_tensor does not train the forest and
\* returns a map of zeros, also for lists with repeated or shared indices.
C19_FewDistinctRowsGiveZeroMap ==
    (/\ f_ret.fn = "compute_contribution_tensor"
     /\ Cardinality(RowsOf(f_ret.cluster1_idx) \cup RowsOf(f_ret.cluster2_idx)) < 5)
    => /\ ~f_ret.trained
       /\ \A a \in DOMAIN f_ret.contrib_tensor :
          \A b \in DOMAIN f_ret.contrib_tensor[a] : f_ret.contrib_tensor[a][b] = 0

\* np.kron(Mt, Mv): entry (a * V + b, i * v + j) is Mt[a][i] * Mv[b][j]
Kron(Mt, Mv) ==
    LET V == Cardinality(DOMAIN Mv)
        v == Cardinality(LatentV)
    IN  [r \in 0..(Cardinality(DOMAIN Mt) * V - 1) |->
            [k \in 0..(Cardinality(LatentT) * v - 1) |->
                Mt[r \div V][k \div v] * Mv[r % V][k % v]]]

\* (kron_mat @ importance).reshape(S, V)
KronContribution(Mt, Mv, importance) ==
    LET V == Cardinality(DOMAIN Mv)
        flat == [r \in DOMAIN Kron(Mt, Mv) |->
                    Sum([k \in DOMAIN importance |->
                            Kron(Mt, Mv)[r][k] * importance[k]], DOMAIN importance)]
    IN  [a \in DOMAIN Mt |-> [b \in DOMAIN Mv |-> flat[a * V + b]]]

\* C20: the product Mt @ importance.reshape(s, v) @ Mv.T computed by
\* compute_contribution_tensor equals (kron(Mt, Mv) @ importance).reshape(S, V)
\* entry by entry.
C20_BilinearEqualsKronecker ==
    (f_ret.fn = "compute_contribution_tensor" /\ f_ret.status = "ok") =>
        f_ret.product
            = KronContribution(f_args.proj_mats[1], f_args.proj_mats[2],
                               f_ret.importance)

\* a trained forest reported four different importances, and the two
\* projection matrices differ
C20_Witness ==
    /\ f_ret.fn = "compute_contribution_tensor"
    /\ f_ret.status = "ok"
    /\ f_ret.trained
    /\ f_ret.importance = [k \in 0..3 |-> k + 1]
    /\ f_args.proj_mats[1] = FromRows(<< <<1, 2>>, <<3, 4>> >>)
    /\ f_args.proj_mats[2] = FromRows(<< <<2, 0>>, <<-1, 1>> >>)
    /\ f_ret.product[0][1] /= f_ret.product[1][0]

\* np.kron(np.kron(Mt, Mv), Mc): entry ((a * V + b) * C + c, k) for the latent
\* index k = (i * v + j) * w + l is Mt[a][i] * Mv[b][j] * Mc[c][l]
Kron3Contribution(Mt, Mv, Mc, importance) ==
    LET v == Cardinality(DOMAIN Mv[0])
        w == Cardinality(DOMAIN Mc[0])
    IN  [a \in DOMAIN Mt |-> [b \in DOMAIN Mv |-> [c \in DOMAIN Mc |->
            Sum([k \in DOMAIN importance |->
                    Mt[a][(k \div w) \div v] * Mv[b][(k \div w) % v] * Mc[c][k % w]
                        * importance[k]],
                DOMAIN importance)]]]

\* C21 (as claimed): given the projection matrices of the time, space and
\* channel modes, compute_contribution_tensor does not fail and returns the map
\* kron(M_time, M_space, M_channel) . importance reshaped to (time, space,
\* channel).
C21_ThreeModesGiveKroneckerMap ==
    (f_ret.fn = "compute_contribution_tensor" /\ Len(f_args.proj_mats) = 3) =>
        /\ f_ret.status = "ok"
        /\ f_ret.product
               = Kron3Contribution(f_args.proj_mats[1], f_args.proj_mats[2],
                                   f_args.proj_mats[3], f_ret.importance)

\* C22: called with the z-score flag off on two projection matrices,
\* compute_contribution_tensor returns the S x V map whose entry (t, c) is the
\* absolute value of the sum over i, j of Mt[t][i] * I[i][j] * Mv[c][j], where
\* I[i][j] = importance[i * v + j]; no entry is negative.
C22_MapIsAbsoluteBilinearForm ==
    (/\ f_ret.fn = "compute_contribution_tensor"
     /\ f_ret.status = "ok"
     /\ ~f_ret.normalize_zscore) =>
        LET Mt == f_args.proj_mats[1]
            Mv == f_args.proj_mats[2]
            v == Cardinality(DOMAIN Mv[0])
            Entry(t, c) ==
                Sum([k \in DOMAIN f_ret.importance |->
                        Mt[t][k \div v] * f_ret.importance[k] * Mv[c][k % v]],
                    DOMAIN f_ret.importance)
        IN  /\ DOMAIN f_ret.contrib_tensor = DOMAIN Mt
            /\ \A t \in DOMAIN Mt :
                   /\ DOMAIN f_ret.contrib_tensor[t] = DOMAIN Mv
                   /\ \A c \in DOMAIN Mv :
                          /\ f_ret.contrib_tensor[t][c] >= 0
                          /\ f_ret.contrib_tensor[t][c]
                                 = (IF Entry(t, c) < 0 THEN -Entry(t, c)
                                    ELSE Entry(t, c))

\* the flag is off and the product has a negative entry, returned as its
\* magnitude
C22_Witness ==
    /\ f_ret.fn = "compute_contribution_tensor"
    /\ f_ret.status = "ok"
    /\ ~f_ret.normalize_zscore
    /\ f_ret.trained
    /\ \E t \in DOMAIN f_ret.product : \E c \in DOMAIN f_ret.product[t] :
           /\ f_ret.product[t][c] < 0
           /\ f_ret.contrib_tensor[t][c] = -f_ret.product[t][c]

\* the sum of the entries of a map
MapTotal(map) ==
    Sum([a \in DOMAIN map |-> Sum(map[a], DOMAIN map[a])], DOMAIN map)

\* the map has two different entries
NotConstant(map) ==
    \E a1, a2 \in DOMAIN map : \E b1 \in DOMAIN map[a1] : \E b2 \in DOMAIN map[a2] :
        map[a1][b1] /= map[a2][b2]

\* C23 (as claimed): with the z-score flag on (normalize_zscore is f_ret's
\* value of the parameter, the default when none is passed) and a map that is
\* not constant, the returned map has mean 0: its entries sum to 0; with the
\* flag off the returned map is the absolute-value map.
C23_ZScoreFlag ==
    f_ret.fn = "compute_contribution_tensor" =>
        /\ (f_ret.status = "ok" /\ f_ret.normalize_zscore
                /\ NotConstant(f_ret.contrib_tensor))
               => MapTotal(f_ret.contrib_tensor) = 0
        /\ (f_ret.status = "ok" /\ ~f_ret.normalize_zscore)
               => \A a \in DOMAIN f_ret.product : \A b \in DOMAIN f_ret.product[a] :
                      f_ret.contrib_tensor[a][b]
                          \in {f_ret.product[a][b], -f_ret.product[a][b]}

\* C29 (as claimed): a row the builder counts is counted in the time bin
\* floor(ELAPSED_SEC / time_bin_seconds) and in no other, and that bin lies in
\* 0..num_time_bins-1; a row with negative ELAPSED_SEC changes no count.
C29_CountedOnlyInItsTimeBin ==
    [][(b_pc = "loop" /\ data_4d' /= data_4d) =>
          LET ev == cur'.ev
              t == ELAPSED_SEC(b_kind, ev) \div time_bin_seconds(b_kind)
          IN  /\ ELAPSED_SEC(b_kind, ev) >= 0
              /\ t \in 0..(num_time_bins(b_kind) - 1)
              /\ \A g \in DOMAIN data_4d : \A u \in DOMAIN data_4d[g] :
                     (g /= cur'.g \/ u /= t) => data_4d'[g][u] = data_4d[g][u]]_vars

-----------------------------------------------------------------------------
(* Reading the session state *)

Has(key) == key \in DOMAIN app_state

\* app_state.get(key, default)
GetOr(key, default) == IF Has(key) THEN app_state[key] ELSE default

\* analysis_mode = app_state.get("analysis_mode", "player") of cluster_shots
ModeRead == GetOr("analysis_mode", "player")

-----------------------------------------------------------------------------
(* More claims about the session state, checked under Spec *)

\* the branch of initialize that wrote the stored snapshot: the team branch
\* stores an empty player_ids, the player branches the requested list, which
\* is not empty when a tensor was built
SnapshotMode ==
    IF app_state["player_ids"] = <<>> THEN "team_season" ELSE "player"

\* C25 (as claimed): whenever a snapshot is stored, the analysis mode that
\* cluster_shots reads is the mode of the initialize that stored it.
C25_ModeReadIsSnapshotMode ==
    Has("tensor_raw") => ModeRead = SnapshotMode

\* C26 (as claimed): an initialize that is answered with an error leaves every
\* entry of the session state as it was.
C26_FailedInitializeChangesNothing ==
    [][(response'.endpoint = "initialize" /\ response'.status = 500)
          => app_state' = app_state]_vars

\* the number of rows of table df with the given property
CountRows(df, Test(_)) == Cardinality({i \in DOMAIN df : Test(df[i])})

\* the events of the stored table that belong to row r: in team mode those of
\* the season player_labels[r] whose combined id is all_game_ids[r], in player
\* mode those of game all_game_ids[r] of the player requested at position
\* player_labels[r]
RowEvents(r) ==
    LET ids == app_state["all_game_ids"]
        labels == app_state["player_labels"]
    IN  SelectSeq(app_state["df_player"],
            LAMBDA e :
                IF SnapshotMode = "team_season"
                THEN /\ e.SEASON_LABEL = labels[r + 1]
                     /\ combined_game_id(<<e.SEASON_LABEL, e.GAME_ID>>) = ids[r + 1]
                ELSE /\ e.GAME_ID = ids[r + 1]
                     /\ e.PLAYER_ID = app_state["player_ids"][labels[r + 1] + 1])

\* the attempts of row r of the stored raw tensor, over time bins and cells
RowAttempts(r) ==
    LET row == app_state["tensor_raw"][r]
    IN  Sum([t \in DOMAIN row |->
                Sum([v \in DOMAIN row[t] |-> row[t][v][0]], DOMAIN row[t])],
            DOMAIN row)

\* C28: once a snapshot is stored, the raw tensor, the standardized tensor, the
\* labels and the game ids have the same number of rows, and row r counts the
\* on-grid events of game all_game_ids[r] of the entity or cohort labelled
\* player_labels[r] (the label is the position in the request, also when an
\* earlier entity has no events), and every such game has events.
C28_RowsAligned ==
    Has("tensor_raw") =>
        LET n == NRows(app_state["tensor_raw"])
        IN  /\ app_state["tensor_standardized"].rows = n
            /\ Len(app_state["player_labels"]) = n
            /\ Len(app_state["all_game_ids"]) = n
            /\ \A r \in 0..(n - 1) :
                   /\ RowEvents(r) /= <<>>
                   /\ RowAttempts(r) = CountRows(RowEvents(r), InGrid)

\* the first requested player has no events: the only row belongs to the
\* second one and carries label 1
C28_Witness ==
    /\ response = Succeeded("initialize")
    /\ Len(app_state["player_ids"]) = 2
    /\ app_state["player_labels"] = <<1>>
    /\ RowAttempts(0) = 1

-----------------------------------------------------------------------------
(* The other endpoints of the API, and a session that uses all of them *)

\* raise HTTPException(status_code=400, detail=...) inside the try block of a
\* route that finds its entries missing
NotInitialized == "Data not initialized. Call /initialize first."

\* RecomputeTulcaRequest: the Factorizer's arguments
RecomputeRequests == [s_dim : {1, 2}]

\* what recalc_tulca_with_weights returns, named by what it was computed from
Refitted(labels, request) ==
    [of |-> "recompute_tulca", rows |-> Len(labels), s_dim |-> request.s_dim]

RecomputeStoreAlsoStandardized(st, fit) ==
    PutAll(st, << <<"proj_mats", fit>>, <<"scaled_data", fit>>,
                  <<"embedding", fit>>, <<"tensor_standardized", fit>> >>)

\* the "Update state" lines of recompute_tulca
RecomputeStore(st, fit) ==
    PutAll(st, << <<"proj_mats", fit>>, <<"scaled_data", fit>>,
                  <<"embedding", fit>> >>)

\* POST /recompute-tulca; ext is what the Factorizer and the Embedder do
PostRecomputeTulca(request, ext) ==
    /\ IF ~Has("tensor_standardized")
       THEN /\ response' = Failed("recompute_tulca", NotInitialized)
            /\ app_state' = app_state
       ELSE IF ext /= "ok"
       THEN /\ response' = Failed("recompute_tulca", "collaborator")
            /\ app_state' = app_state
       ELSE /\ app_state' = RecomputeStore(
                                app_state,
                                Refitted(app_state["player_labels"], request))
            /\ response' = Succeeded("recompute_tulca")
    /\ UNCHANGED source
    /\ UNCHANGED bvars
    /\ UNCHANGED fvars

\* POST /analyze-clusters; ext is what the forest does with the stored
\* scaled_data and the requested rows
PostAnalyzeClusters(ext) ==
    /\ response' = IF ~Has("scaled_data")
                   THEN Failed("analyze_clusters", NotInitialized)
                   ELSE IF ext /= "ok" THEN Failed("analyze_clusters", "collaborator")
                   ELSE Succeeded("analyze_clusters")
    /\ UNCHANGED <<app_state, source>>
    /\ UNCHANGED bvars
    /\ UNCHANGED fvars

\* the rows a request can name: those of the stored tensor, row 0 before a
\* snapshot is stored
ApiRows ==
    IF Has("all_game_ids") /\ Has("tensor_raw")
    THEN 0..(Len(app_state["all_game_ids"]) - 1) ELSE {0}

ApiSelections == UNION {[1..n -> ApiRows] : n \in 0..MaxSelected}

\* time_bin: None, or the time bin of the shots of the Event Source
ApiTimeBins == {{}, {2}}

\* (channel, weighted) of the three views: attempts, FG%, EFG%
ApiViews == {<<0, FALSE>>, <<1, FALSE>>, <<2, TRUE>>}

\* AggregateClusterRequest
AggregateApiRequests ==
    {[cluster_idx |-> cluster_idx, channel |-> view[1], weighted |-> view[2],
      time_bin |-> bin] :
        cluster_idx \in ApiSelections, view \in ApiViews, bin \in ApiTimeBins}

\* InitializeRequest: no player, one player, two players
ApiRequests ==
    {req \in Requests :
         req.player_ids \in {<<>>, <<203999>>, <<203999, 203507>>}}

\* POST /aggregate-cluster
PostAggregateCluster(request) ==
    /\ response' =
           IF ~Has("tensor_raw")
           THEN Failed("aggregate_cluster", NotInitialized)
           ELSE [endpoint |-> "aggregate_cluster", status |-> 200,
                 result |-> aggregate_cluster(app_state["tensor_raw"], request)]
    /\ UNCHANGED <<app_state, source>>
    /\ UNCHANGED bvars
    /\ UNCHANGED fvars

\* ClusterShotsRequest
ClusterShotsRequests == [cluster_idx : ApiSelections, time_bin : ApiTimeBins]

\* df_player.merge(valid_pairs, on=[a, b], how="inner")
Merge(df, a, b, valid_pairs) ==
    SelectSeq(df, LAMBDA e : <<e[a], e[b]>> \in valid_pairs)

HasColumn(df, c) == df = <<>> \/ c \in DOMAIN df[1]

\* ShotDataPoint
ShotDataPoint(row) ==
    [LOC_X |-> row.LOC_X, LOC_Y |-> row.LOC_Y,
     SHOT_MADE_FLAG |-> row.SHOT_MADE_FLAG, ELAPSED_SEC |-> row.ELAPSED_SEC]

\* sub[(sub["ELAPSED_SEC"] >= t_start) & (sub["ELAPSED_SEC"] < t_end)]
TimeFilter(sub, bin, tbs) ==
    IF bin = {} THEN sub
    ELSE LET t == CHOOSE u \in bin : TRUE
         IN  SelectSeq(sub, LAMBDA e : /\ e.ELAPSED_SEC >= t * tbs
                                       /\ e.ELAPSED_SEC < (t + 1) * tbs)

\* the body of POST /cluster-shots once df_player and all_game_ids are there
cluster_shots(request) ==
    LET df_player == app_state["df_player"]
        all_game_ids_ == app_state["all_game_ids"]
        tbs == GetOr("time_bin_seconds", TIME_BIN_SECONDS_NBA)
        cluster_idx == request.cluster_idx
        game_ids_cluster == [k \in DOMAIN cluster_idx |->
                                all_game_ids_[cluster_idx[k] + 1]]
        player_of_game == GetOr("player_of_game", <<>>)
        Answer(sub) ==
            [endpoint |-> "cluster_shots", status |-> 200, request |-> request,
             shots |-> [k \in DOMAIN TimeFilter(sub, request.time_bin, tbs) |->
                           ShotDataPoint(TimeFilter(sub, request.time_bin, tbs)[k])]]
    IN  IF cluster_idx = <<>>
        THEN [endpoint |-> "cluster_shots", status |-> 200, request |-> request,
              shots |-> <<>>]
        ELSE IF ModeRead = "team_season"
        THEN IF ~HasColumn(df_player, "SEASON_LABEL")
             THEN Failed("cluster_shots", "KeyError")
             ELSE Answer(Merge(df_player, "GAME_ID", "SEASON_LABEL",
                               {<<game_ids_cluster[k] % 1000000,
                                  game_ids_cluster[k] \div 1000000>> :
                                    k \in DOMAIN game_ids_cluster}))
        ELSE IF Len(player_of_game) > 0
        THEN Answer(Merge(df_player, "GAME_ID", "PLAYER_ID",
                          {<<game_ids_cluster[k], player_of_game[cluster_idx[k] + 1]>> :
                               k \in DOMAIN game_ids_cluster}))
        ELSE Answer(SelectSeq(df_player,
                        LAMBDA e : \E k \in DOMAIN game_ids_cluster :
                                       e.GAME_ID = game_ids_cluster[k]))

\* POST /cluster-shots
PostClusterShots(request) ==
    /\ response' = IF ~Has("df_player") \/ ~Has("all_game_ids")
                   THEN Failed("cluster_shots", NotInitialized)
                   ELSE cluster_shots(request)
    /\ UNCHANGED <<app_state, source>>
    /\ UNCHANGED bvars
    /\ UNCHANGED fvars

\* rows of the Event Source: a counted shot, and a shot on the last x edge
OnGridShot(gid, season, pid) ==
    [Shot(gid, season, BaseTime, BaseLoc, Make3) EXCEPT !.PLAYER_ID = pid]

OffGridShot(gid, season, pid) ==
    [Shot(gid, season, BaseTime, <<XEdgeHi, YEdgeLo>>, Miss2) EXCEPT !.PLAYER_ID = pid]

\* Event Sources of the session: no event; one game with a counted and an
\* off-grid shot; one game in each season; one game with shots of two players
ApiSources ==
    {<<>>,
     <<OnGridShot(1, 0, 203999), OffGridShot(1, 0, 203999)>>,
     <<OnGridShot(1, 0, 203999), OnGridShot(1, 1, 203999)>>,
     <<OnGridShot(1, 0, 203999), OnGridShot(1, 0, 203507)>>}

InitApi ==
    /\ source \in ApiSources
    /\ app_state = EmptyDict
    /\ response = NoResponse
    /\ f_args = NoCall
    /\ f_ret = NoCall
    /\ b_kind = "none"
    /\ b_df = <<>>
    /\ b_pc = "idle"
    /\ g_idx = 0
    /\ r_idx = 0
    /\ data_4d = EmptyDict
    /\ cur = NoRow
    /\ b_out = NoOut

NextApi ==
    \/ \E req \in ApiRequests : \E ext \in {"ok", "raises"} : Initialize(req, ext)
    \/ \E request \in RecomputeRequests : \E ext \in {"ok", "raises"} :
           PostRecomputeTulca(request, ext)
    \/ \E ext \in {"ok", "raises"} : PostAnalyzeClusters(ext)
    \/ \E request \in AggregateApiRequests : PostAggregateCluster(request)
    \/ \E request \in ClusterShotsRequests : PostClusterShots(request)

SpecApi == InitApi /\ [][NextApi]_vars

-----------------------------------------------------------------------------
(* Claims about the session with all endpoints, checked under SpecApi *)

OtherEndpoints ==
    {"recompute_tulca", "analyze_clusters", "aggregate_cluster", "cluster_shots"}

\* C24 (as claimed): a recompute-tulca, analyze-clusters, aggregate-cluster or
\* cluster-shots request made while no initialize has succeeded yet is answered
\* with status 400 and the detail "Data not initialized. Call /initialize
\* first.", and leaves the session state as it was.
C24_NotInitializedIs400 ==
    [][(response'.endpoint \in OtherEndpoints /\ ~Has("tensor_raw")) =>
          /\ response'.status = 400
          /\ response'.detail = NotInitialized
          /\ app_state' = app_state]_vars

\* the tensor the builders make of the stored event table for the stored
\* players, under the time bins of league kind
Rebuilt(kind) ==
    IF SnapshotMode = "team_season"
    THEN BuildTeam(app_state["df_player"]).tensor
    ELSE BuildPlayers(kind, app_state["df_player"], app_state["player_ids"],
                      0, NoTensors).tensor

\* C27: a successful recompute-tulca replaces proj_mats, scaled_data and
\* embedding by the results of one Factorizer run and leaves every other entry
\* as it was; a failing one changes nothing; analyze-clusters,
\* aggregate-cluster and cluster-shots change no entry; and the stored raw
\* tensor is at all times what the builder makes of the stored event table.
C27_FrameOfTheOtherEndpoints ==
    /\ [][/\ response'.endpoint = "recompute_tulca" =>
                IF response'.status = 200
                THEN /\ DOMAIN app_state' = DOMAIN app_state
                     /\ \A k \in DOMAIN app_state \ {"proj_mats", "scaled_data", "embedding"} :
                            app_state'[k] = app_state[k]
                     /\ app_state'["proj_mats"].of = "recompute_tulca"
                     /\ app_state'["scaled_data"] = app_state'["proj_mats"]
                     /\ app_state'["embedding"] = app_state'["proj_mats"]
                ELSE app_state' = app_state
          /\ response'.endpoint \in OtherEndpoints \ {"recompute_tulca"}
                => app_state' = app_state]_vars
    /\ [](Has("tensor_raw") =>
              \E kind \in {"nba", "bleague"} : app_state["tensor_raw"] = Rebuilt(kind))

\* a recompute has replaced the three results of the initialize; the
\* standardized tensor is still the one of the initialize
C27_Witness ==
    /\ response = Succeeded("recompute_tulca")
    /\ app_state["proj_mats"].of = "recompute_tulca"
    /\ app_state["tensor_standardized"].of = "standardize"
    /\ NRows(app_state["tensor_raw"]) = 2

\* C30 (as claimed): a cluster-shots request for a non-empty selection of rows
\* of the stored tensor and a time bin t is answered with as many events as
\* aggregate-cluster counts attempts for that selection over the cells of bin
\* t (in particular it is answered without an error).
C30_ShotsAreTheCountedEvents ==
    (response.endpoint = "cluster_shots" /\ Has("tensor_raw")) =>
        /\ response.status = 200
        /\ (response.request.cluster_idx /= <<>> /\ response.request.time_bin /= {})
               => LET counts == aggregate_cluster(
                                    app_state["tensor_raw"],
                                    [cluster_idx |-> response.request.cluster_idx,
                                     channel |-> 0, weighted |-> FALSE,
                                     time_bin |-> response.request.time_bin]).values
                  IN  Len(response.shots) = Sum(counts, DOMAIN counts)

====
